---- MODULE Spec2Model ----
(***************************************************************************)
(* A model of rust-utils' Leitner box scheduler                            *)
(* (src/modules/learning/spaced_rep.rs): the struct LeitnerBox, its        *)
(* constructor, its three mutating methods and its queries; and of its     *)
(* answer matcher (src/modules/learning/fuzzy.rs): FuzzyMatcher::new,       *)
(* check_answer, similarity and is_similar; of the session statistics      *)
(* (src/modules/learning/models.rs, SessionStats); of the highscore file   *)
(* and its manager (src/modules/typing/highscore.rs: load, save,           *)
(* add_score); of Config::validate (src/core/config.rs); and of the key    *)
(* handlers of the terminal UI (src/ui/mod.rs, src/ui/app.rs).             *)
(*                                                                         *)
(* A Vec<T> is a function over 0..len-1 (Rust indices are kept as they     *)
(* are), a VecDeque<usize> is a sequence whose head is the front, and an   *)
(* Option<T> is a sequence of length 0 or 1.  A Rust panic (an index out   *)
(* of bounds, a usize subtraction below zero) ends the run: it sets        *)
(* `panicked` and no method is called afterwards.  An f64 is an exact       *)
(* fraction n/d (d = 0 for an infinity) or NaN: the rounding of f64        *)
(* arithmetic is not represented.                                          *)
(***************************************************************************)
EXTENDS Integers, Sequences, FiniteSets, TLC

\* Bounds of the model: the constructor's arguments range over
\* 0..MaxBoxes and 0..MaxItems.
MaxBoxes == 3
MaxItems == 3

\* Bounds of the matcher's inputs: user inputs of at most MaxStrLen
\* characters, correct answers of at most MaxAnswerLen characters, and
\* thresholds, margins and scores in steps of 1/Scale.
MaxStrLen == 2
MaxAnswerLen == 1
Scale == 4

\* Bound of a session: at most MaxReviews answers are recorded.
MaxReviews == 5

\* Bounds of the highscores: at most MaxAdds add_score calls, WPM values
\* 0, 10, ..., 10 * MaxWpm (and +infinity), max_scores in 0..MaxKeep.
MaxAdds == 3
MaxWpm == 2
MaxKeep == 2

\* Bound of the configurations: leitner_boxes ranges over 0..MaxConfigBoxes.
MaxConfigBoxes == 11

\* Bounds of the UI: typing targets of at most MaxText characters, at most
\* MaxErrors typing errors counted, learning sets of at most MaxCards cards,
\* answers typed of at most MaxInput characters, directories of at most
\* MaxFiles entries, and at most MaxKeys key events in a run of the whole
\* application.
MaxText == 2
MaxErrors == 3
MaxCards == 2
MaxInput == 2
MaxFiles == 2
MaxKeys == 4

\* The item ids callers pass: every valid id and, for every num_items,
\* at least two ids that are out of range.
Ids == 0..(MaxItems + 1)

VARIABLES
    num_boxes,       \* LeitnerBox.num_boxes
    boxes,           \* LeitnerBox.boxes: Vec<VecDeque<usize>>
    item_locations,  \* LeitnerBox.item_locations: Vec<usize>
    num_items,       \* the num_items argument new() was called with
    panicked,        \* TRUE once a method (or new) has panicked
    call,            \* the last method called and its argument
    old,             \* the LeitnerBox as it was when the last method was called
    ret,             \* what the last method returned
    streak,          \* per item, the answer_correct calls on it since the last
                     \* answer_incorrect on it, reset or new; counts of
                     \* num_boxes and more are not told apart
    arrival,         \* per box, the items that are in it in the order in
                     \* which they were put there: by new and reset in
                     \* ascending id, by an answer behind all others
    threshold,       \* FuzzyMatcher.threshold
    decision_margin, \* FuzzyMatcher.decision_margin
    given,           \* the arguments FuzzyMatcher::new was called with
    user_input,      \* the user_input argument of the matcher's methods
    correct_answer,  \* the correct_answer argument of the matcher's methods
    jw,              \* what strsim::jaro_winkler returns for the two
                     \* normalized arguments when they differ
    total_reviewed,  \* SessionStats.total_reviewed
    correct,         \* SessionStats.correct
    incorrect,       \* SessionStats.incorrect
    user_overrides,  \* SessionStats.user_overrides
    old_stats,       \* the SessionStats as they were when the last method
                     \* was called
    file,            \* the highscore file at HighScoreManager.file_path:
                     \* whether it exists, whether it can be opened for
                     \* reading, and its content
    max_scores,      \* HighScoreManager.max_scores
    old_file,        \* the highscore file as it was when the last method
                     \* was called
    added,           \* the scores of the add_score calls that returned Ok,
                     \* in the order of the calls
    fuzzy_threshold, \* Config.learning.fuzzy_threshold
    min_accuracy_for_highscore,  \* Config.defaults.min_accuracy_for_highscore
    leitner_boxes,   \* Config.learning.leitner_boxes
    current_screen,  \* App.current_screen
    exit,            \* App.exit
    menu_cursor,     \* App.menu_cursor
    typing_state,    \* App.typing_state: TypingState
    learning_state,  \* App.learning_state: LearningState
    file_explorer_state,  \* App.file_explorer_state: the files listed and
                     \* selected_index
    statistics_state,  \* App.statistics_state: the highscores loaded
    language,        \* App.config.defaults.language
    difficulty,      \* App.config.defaults.difficulty
    config_file,     \* what config/default.toml holds of the settings, if
                     \* it was written
    old_app,         \* the App as it was when the last key event came
    keys_handled     \* the key events handled so far

schedulerVars == <<num_boxes, boxes, item_locations, num_items, old, streak,
                   arrival>>
matcherVars == <<threshold, decision_margin, given, user_input,
                 correct_answer, jw>>
statsVars == <<total_reviewed, correct, incorrect, user_overrides, old_stats>>
highscoreVars == <<file, max_scores, old_file, added>>
configVars == <<fuzzy_threshold, min_accuracy_for_highscore, leitner_boxes>>
uiVars == <<current_screen, exit, menu_cursor, typing_state, learning_state,
            file_explorer_state, statistics_state, language, difficulty,
            config_file, old_app, keys_handled>>
vars == <<num_boxes, boxes, item_locations, num_items, panicked, call,
          old, ret, streak, arrival, threshold, decision_margin, given, user_input,
          correct_answer, jw, total_reviewed, correct, incorrect,
          user_overrides, old_stats, file, max_scores, old_file, added,
          fuzzy_threshold, min_accuracy_for_highscore, leitner_boxes,
          current_screen, exit, menu_cursor, typing_state, learning_state,
          file_explorer_state, statistics_state, language, difficulty,
          config_file, old_app, keys_handled>>

----------------------------------------------------------------------------
\* Rust values

None == <<>>
Some(x) == <<x>>
Unit == <<>>

VecLen(v) == Cardinality(DOMAIN v)
InBounds(v, i) == i \in DOMAIN v
Min(a, b) == IF a <= b THEN a ELSE b
Last(q) == q[Len(q)]

\* The outcome of a call: the object afterwards, the value returned, and
\* whether the call panicked (the object is then left as it was).
Ok(obj, r) == [self |-> obj, ret |-> r, panicked |-> FALSE]
Panic(obj) == [self |-> obj, ret |-> Unit, panicked |-> TRUE]

----------------------------------------------------------------------------
\* f64 values: the fraction n/d with d >= 0, or NaN

NaN == [nan |-> TRUE, n |-> 0, d |-> 1]
F(n, d) ==
    IF d # 0 THEN [nan |-> FALSE, n |-> n, d |-> d]
    ELSE IF n = 0 THEN NaN
    ELSE [nan |-> FALSE, n |-> IF n > 0 THEN 1 ELSE -1, d |-> 0]

\* usize as f64
AsF64(k) == F(k, 1)

\* the comparisons of f64: each is false when an operand is NaN
FEq(a, b) ==
    /\ ~a.nan /\ ~b.nan
    /\ IF a.d = 0 \/ b.d = 0 THEN a.d = b.d /\ a.n = b.n
       ELSE a.n * b.d = b.n * a.d
FLt(a, b) ==
    /\ ~a.nan /\ ~b.nan
    /\ IF a.d = 0 /\ b.d = 0 THEN a.n < b.n
       ELSE IF a.d = 0 THEN a.n < 0
       ELSE IF b.d = 0 THEN b.n > 0
       ELSE a.n * b.d < b.n * a.d
FLe(a, b) == FLt(a, b) \/ FEq(a, b)
FGt(a, b) == FLt(b, a)
FGe(a, b) == FLe(b, a)

\* f64 addition and subtraction
FAdd(a, b) == IF a.nan \/ b.nan THEN NaN ELSE F(a.n * b.d + b.n * a.d, a.d * b.d)
FSub(a, b) == IF a.nan \/ b.nan THEN NaN ELSE F(a.n * b.d - b.n * a.d, a.d * b.d)

\* f64::max: when one operand is NaN the other is returned
FMax(a, b) ==
    IF a.nan THEN b ELSE IF b.nan THEN a ELSE IF FLt(a, b) THEN b ELSE a

\* f64::clamp: if x < min { min } else if x > max { max } else { x };
\* a NaN stays NaN
clamp(x, lo, hi) ==
    LET y == IF FLt(x, lo) THEN lo ELSE x
    IN  IF FGt(y, hi) THEN hi ELSE y

\* f64 multiplication and division
FMul(a, b) == IF a.nan \/ b.nan THEN NaN ELSE F(a.n * b.n, a.d * b.d)
FDiv(a, b) ==
    IF a.nan \/ b.nan THEN NaN
    ELSE IF b.n < 0 THEN F(-(a.n * b.d), a.d * (-b.n))
    ELSE F(a.n * b.d, a.d * b.n)

----------------------------------------------------------------------------
\* VecDeque operations the methods use

\* a removal that fills the item's place with the last element of the queue
swap_remove(q, item_id) ==
    IF \A k \in 1..Len(q) : q[k] # item_id THEN q
    ELSE LET at == CHOOSE k \in 1..Len(q) : q[k] = item_id
         IN  [k \in 1..(Len(q) - 1) |-> IF k = at THEN Last(q) ELSE q[k]]

\* a retain that keeps everything: the item is never removed
retain_keep_all(q, item_id) == q

\* VecDeque::retain(|&id| id != item_id)
retain(q, item_id) == SelectSeq(q, LAMBDA id : id # item_id)

\* an insertion at the front of the queue
push_front(q, x) == <<x>> \o q

\* VecDeque::push_back
push_back(q, x) == Append(q, x)

\* the loop running over 1..=n instead of 0..n
RECURSIVE push_range_from_one(_, _, _)
push_range_from_one(q, i, n) ==
    IF i >= n THEN q ELSE push_range_from_one(push_back(q, i + 1), i + 1, n)

\* for i in 0..n { q.push_back(i) }, from i on
RECURSIVE push_range(_, _, _)
push_range(q, i, n) ==
    IF i >= n THEN q ELSE push_range(push_back(q, i), i + 1, n)

----------------------------------------------------------------------------
\* LeitnerBox::new

new(nb, ni) ==
    LET empty == [b \in 0..(nb - 1) |-> <<>>]
        locs  == [i \in 0..(ni - 1) |-> 0]
    IN  IF ni > 0 /\ ~InBounds(empty, 0)
        THEN \* boxes[0] on an empty Vec: index out of bounds
             Panic([num_boxes |-> nb, boxes |-> empty, item_locations |-> <<>>])
        ELSE Ok([num_boxes |-> nb,
                 boxes |-> IF ni > 0
                           THEN [empty EXCEPT ![0] = push_range(@, 0, ni)]
                           ELSE empty,
                 item_locations |-> locs], Unit)

----------------------------------------------------------------------------
\* LeitnerBox::answer_correct

\* a promotion that skips a box
next_box_skip(obj, cur) == Min(cur + 2, obj.num_boxes - 1)

\* a promotion that stays in the current box
next_box_stay(obj, cur) == Min(cur, obj.num_boxes - 1)

\* a promotion that wraps around after the last box
next_box_wrap(obj, cur) == (cur + 1) % obj.num_boxes

\* (current_box + 1).min(self.num_boxes - 1)
next_box(obj, cur) == Min(cur + 1, obj.num_boxes - 1)

\* answer_correct with the range check off by one (> for >=)
answer_correct_gt(obj, item_id) ==
    IF item_id > VecLen(obj.item_locations) THEN Ok(obj, Unit)
    ELSE IF ~InBounds(obj.item_locations, item_id) THEN Panic(obj)
    ELSE LET cur == obj.item_locations[item_id]
             nxt == next_box(obj, cur)
             removed == [obj.boxes EXCEPT ![cur] = retain(@, item_id)]
         IN  Ok([obj EXCEPT
                   !.boxes = [removed EXCEPT ![nxt] = push_back(@, item_id)],
                   !.item_locations = [@ EXCEPT ![item_id] = nxt]], Unit)

answer_correct(obj, item_id) ==
    IF item_id >= VecLen(obj.item_locations) THEN Ok(obj, Unit)
    ELSE LET cur == obj.item_locations[item_id]
         IN  IF obj.num_boxes = 0
             THEN \* self.num_boxes - 1 below zero: a debug build panics
                  \* on the subtraction, a release build on boxes[cur]
                  Panic(obj)
             ELSE
             LET nxt == next_box(obj, cur)
             IN  IF ~InBounds(obj.boxes, cur) \/ ~InBounds(obj.boxes, nxt)
                 THEN Panic(obj)
                 ELSE
                 LET removed == [obj.boxes EXCEPT ![cur] = retain(@, item_id)]
                 IN  Ok([obj EXCEPT
                           !.boxes = [removed EXCEPT
                                        ![nxt] = push_back(@, item_id)],
                           !.item_locations = [@ EXCEPT ![item_id] = nxt]],
                        Unit)

----------------------------------------------------------------------------
\* LeitnerBox::answer_incorrect

\* answer_incorrect that forgets to update the reverse index
answer_incorrect_no_index(obj, item_id) ==
    IF item_id >= VecLen(obj.item_locations) THEN Ok(obj, Unit)
    ELSE LET cur == obj.item_locations[item_id]
         IN  IF ~InBounds(obj.boxes, cur) \/ ~InBounds(obj.boxes, 0)
             THEN Panic(obj)
             ELSE
             LET removed == [obj.boxes EXCEPT ![cur] = retain(@, item_id)]
             IN  Ok([obj EXCEPT
                       !.boxes = [removed EXCEPT ![0] = push_back(@, item_id)]],
                    Unit)

\* answer_incorrect that demotes by one box instead of to box 0
answer_incorrect_one_down(obj, item_id) ==
    IF item_id >= VecLen(obj.item_locations) THEN Ok(obj, Unit)
    ELSE LET cur == obj.item_locations[item_id]
             low == IF cur = 0 THEN 0 ELSE cur - 1
         IN  IF ~InBounds(obj.boxes, cur) \/ ~InBounds(obj.boxes, low)
             THEN Panic(obj)
             ELSE
             LET removed == [obj.boxes EXCEPT ![cur] = retain(@, item_id)]
             IN  Ok([obj EXCEPT
                       !.boxes = [removed EXCEPT
                                    ![low] = push_back(@, item_id)],
                       !.item_locations = [@ EXCEPT ![item_id] = low]], Unit)

answer_incorrect(obj, item_id) ==
    IF item_id >= VecLen(obj.item_locations) THEN Ok(obj, Unit)
    ELSE LET cur == obj.item_locations[item_id]
         IN  IF ~InBounds(obj.boxes, cur) \/ ~InBounds(obj.boxes, 0)
             THEN Panic(obj)
             ELSE
             LET removed == [obj.boxes EXCEPT ![cur] = retain(@, item_id)]
             IN  Ok([obj EXCEPT
                       !.boxes = [removed EXCEPT ![0] = push_back(@, item_id)],
                       !.item_locations = [@ EXCEPT ![item_id] = 0]], Unit)

----------------------------------------------------------------------------
\* LeitnerBox::reset

\* a reset that does not clear the boxes first
reset_no_clear(obj) ==
    LET n == VecLen(obj.item_locations)
    IN  IF n > 0 /\ ~InBounds(obj.boxes, 0) THEN Panic(obj)
        ELSE Ok([obj EXCEPT
                   !.boxes = IF n > 0
                             THEN [@ EXCEPT ![0] = push_range(@, 0, n)]
                             ELSE @,
                   !.item_locations = [i \in DOMAIN @ |-> 0]], Unit)

\* a reset that refills box 0 but leaves the reverse index as it was
reset_keep_locations(obj) ==
    LET n == VecLen(obj.item_locations)
        cleared == [b \in DOMAIN obj.boxes |-> <<>>]
    IN  IF n > 0 /\ ~InBounds(cleared, 0) THEN Panic(obj)
        ELSE Ok([obj EXCEPT
                   !.boxes = IF n > 0
                             THEN [cleared EXCEPT ![0] = push_range(@, 0, n)]
                             ELSE cleared], Unit)

reset(obj) ==
    LET n == VecLen(obj.item_locations)
        \* for box_items in &mut self.boxes { box_items.clear() }
        cleared == [b \in DOMAIN obj.boxes |-> <<>>]
    IN  \* for (i, location) in item_locations.iter_mut().enumerate()
        IF n > 0 /\ ~InBounds(cleared, 0) THEN Panic(obj)
        ELSE Ok([obj EXCEPT
                   !.boxes = IF n > 0
                             THEN [cleared EXCEPT ![0] = push_range(@, 0, n)]
                             ELSE cleared,
                   !.item_locations = [i \in DOMAIN @ |-> 0]], Unit)

----------------------------------------------------------------------------
\* The queries

\* the scan of get_next_item taking the back of the first non-empty box
RECURSIVE scan_back(_, _)
scan_back(bx, b) ==
    IF ~InBounds(bx, b) THEN None
    ELSE IF bx[b] # <<>> THEN Some(Last(bx[b]))
    ELSE scan_back(bx, b + 1)

get_next_item_back(obj) == Ok(obj, scan_back(obj.boxes, 0))

\* a scan from the last box down: for box_items in self.boxes.iter().rev()
RECURSIVE scan_from_last(_, _)
scan_from_last(bx, b) ==
    LET top == VecLen(bx) - 1 - b
    IN  IF ~InBounds(bx, top) THEN None
        ELSE IF bx[top] # <<>> THEN Some(Head(bx[top]))
        ELSE scan_from_last(bx, b + 1)

\* a scan that looks at the first box only
scan_first_box(bx, b) ==
    IF ~InBounds(bx, b) THEN None
    ELSE IF bx[b] # <<>> THEN Some(Head(bx[b]))
    ELSE None

\* for box_items in &self.boxes { if let Some(&id) = box_items.front() .. }
RECURSIVE scan_front(_, _)
scan_front(bx, b) ==
    IF ~InBounds(bx, b) THEN None
    ELSE IF bx[b] # <<>> THEN Some(Head(bx[b]))
    ELSE scan_front(bx, b + 1)

\* LeitnerBox::get_next_item
get_next_item(obj) == Ok(obj, scan_front(obj.boxes, 0))

\* LeitnerBox::get_item_box: self.item_locations.get(item_id).copied()
get_item_box(obj, item_id) ==
    Ok(obj, IF InBounds(obj.item_locations, item_id)
            THEN Some(obj.item_locations[item_id])
            ELSE None)

\* LeitnerBox::get_box_counts: the Vec of the boxes' lengths
get_box_counts(obj) == Ok(obj, [b \in DOMAIN obj.boxes |-> Len(obj.boxes[b])])

\* self.boxes.iter().map(|b| b.len()).sum(), from box b on
RECURSIVE sum_len(_, _)
sum_len(bx, b) ==
    IF ~InBounds(bx, b) THEN 0 ELSE Len(bx[b]) + sum_len(bx, b + 1)

\* LeitnerBox::remaining_items
remaining_items(obj) == Ok(obj, sum_len(obj.boxes, 0))

\* LeitnerBox::all_mastered
all_mastered(obj) ==
    IF ~InBounds(obj.boxes, obj.num_boxes - 1)
    THEN \* num_boxes = 0: num_boxes - 1 is below zero; a debug build panics
         \* on the subtraction, a release build on the index usize::MAX
         Panic(obj)
    ELSE Ok(obj, Len(obj.boxes[obj.num_boxes - 1]) = VecLen(obj.item_locations))

\* a summary that takes the first box's count for the mastered items
summary_first(obj) ==
    LET counts   == get_box_counts(obj).ret
        total    == VecLen(obj.item_locations)
        mastered == IF VecLen(counts) = 0 THEN 0 ELSE counts[0]
    IN  IF mastered > total
        THEN Panic(obj)
        ELSE Ok(obj, [total_items |-> total,
                      mastered_items |-> mastered,
                      in_progress_items |-> total - mastered,
                      box_counts |-> counts])

\* LeitnerBox::summary
summary(obj) ==
    LET counts   == get_box_counts(obj).ret
        total    == VecLen(obj.item_locations)
        \* counts.last().copied().unwrap_or(0)
        mastered == IF VecLen(counts) = 0 THEN 0
                    ELSE counts[VecLen(counts) - 1]
    IN  IF mastered > total
        THEN \* total - mastered below zero panics in a debug build (a
             \* release build wraps modulo 2^64); no reachable state gets here
             Panic(obj)
        ELSE Ok(obj, [total_items |-> total,
                      mastered_items |-> mastered,
                      in_progress_items |-> total - mastered,
                      box_counts |-> counts])

\* mastery_percentage without the guard for total_items == 0
mastery_percentage_no_guard(s) ==
    FMul(FDiv(AsF64(s.mastered_items), AsF64(s.total_items)), F(100, 1))

\* mastery_percentage returning the fraction, not the percentage
mastery_percentage_fraction(s) ==
    IF s.total_items = 0 THEN F(0, 1)
    ELSE FDiv(AsF64(s.mastered_items), AsF64(s.total_items))

\* LeitnerSummary::mastery_percentage
mastery_percentage(s) ==
    IF s.total_items = 0 THEN F(0, 1)
    ELSE FMul(FDiv(AsF64(s.mastered_items), AsF64(s.total_items)), F(100, 1))

\* self.summary().mastery_percentage()
summary_mastery_percentage(obj) ==
    LET s == summary(obj)
    IN  IF s.panicked THEN s ELSE Ok(obj, mastery_percentage(s.ret))

----------------------------------------------------------------------------
\* Strings: sequences of characters.  The alphabet has a letter in both
\* cases and a white space character.

Alphabet == {"a", "A", " "}

RECURSIVE StringsOfLen(_)
StringsOfLen(k) ==
    IF k = 0 THEN {<<>>}
    ELSE {Append(w, ch) : w \in StringsOfLen(k - 1), ch \in Alphabet}

Strings == UNION {StringsOfLen(k) : k \in 0..MaxStrLen}
Answers == UNION {StringsOfLen(k) : k \in 0..MaxAnswerLen}

\* char::is_whitespace
is_whitespace(ch) == ch = " "

\* str::trim_start and str::trim_end
RECURSIVE trim_start(_)
trim_start(w) ==
    IF w # <<>> /\ is_whitespace(Head(w)) THEN trim_start(Tail(w)) ELSE w

RECURSIVE trim_end(_)
trim_end(w) ==
    IF w # <<>> /\ is_whitespace(Last(w))
    THEN trim_end(SubSeq(w, 1, Len(w) - 1)) ELSE w

\* str::trim
trim(w) == trim_end(trim_start(w))

\* str::to_lowercase
to_lowercase(w) == [k \in 1..Len(w) |-> IF w[k] = "A" THEN "a" ELSE w[k]]

\* input.trim().to_lowercase()
normalize(w) == to_lowercase(trim(w))

----------------------------------------------------------------------------
\* FuzzyMatcher

\* FuzzyMatcher::new with the margin clamped into [0, 1] like the threshold
FuzzyMatcher_new_same_range(t, m) ==
    [threshold |-> clamp(t, F(0, 1), F(1, 1)),
     decision_margin |-> clamp(m, F(0, 1), F(1, 1))]

\* FuzzyMatcher::new
FuzzyMatcher_new(t, m) ==
    [threshold |-> clamp(t, F(0, 1), F(1, 1)),
     decision_margin |-> clamp(m, F(0, 1), F(1, 2))]

\* FuzzyMatcher::default
FuzzyMatcher_default == FuzzyMatcher_new(F(85, 100), F(10, 100))

\* strsim::jaro_winkler(a, b): 1.0 for equal strings, else the score the
\* library returns for this pair, which is the input jw
jaro_winkler(a, b) == IF a = b THEN F(1, 1) ELSE jw

\* the variants of MatchResult
AutoCorrect(score) == [tag |-> "AutoCorrect", score |-> score]
AutoIncorrect(score) == [tag |-> "AutoIncorrect", score |-> score]
NeedsUserDecision(score, u, c) ==
    [tag |-> "NeedsUserDecision", score |-> score,
     user_input |-> u, correct_answer |-> c]

\* check_answer without the early return for equal strings
check_answer_no_exact(m, u, c) ==
    LET user_normalized    == normalize(u)
        correct_normalized == normalize(c)
        score       == jaro_winkler(user_normalized, correct_normalized)
        upper_bound == FAdd(m.threshold, m.decision_margin)
        lower_bound == FMax(FSub(m.threshold, m.decision_margin), F(0, 1))
    IN  IF FGe(score, upper_bound) THEN AutoCorrect(score)
        ELSE IF FLt(score, lower_bound) THEN AutoIncorrect(score)
        ELSE NeedsUserDecision(score, u, c)

\* check_answer accepting only above the upper bound (> for >=)
check_answer_gt(m, u, c) ==
    LET user_normalized    == normalize(u)
        correct_normalized == normalize(c)
    IN  IF user_normalized = correct_normalized THEN AutoCorrect(F(1, 1))
        ELSE
        LET score       == jaro_winkler(user_normalized, correct_normalized)
            upper_bound == FAdd(m.threshold, m.decision_margin)
            lower_bound == FMax(FSub(m.threshold, m.decision_margin), F(0, 1))
        IN  IF FGt(score, upper_bound) THEN AutoCorrect(score)
            ELSE IF FLt(score, lower_bound) THEN AutoIncorrect(score)
            ELSE NeedsUserDecision(score, u, c)

\* check_answer handing back the normalized strings
check_answer_normalized(m, u, c) ==
    LET user_normalized    == normalize(u)
        correct_normalized == normalize(c)
    IN  IF user_normalized = correct_normalized THEN AutoCorrect(F(1, 1))
        ELSE
        LET score       == jaro_winkler(user_normalized, correct_normalized)
            upper_bound == FAdd(m.threshold, m.decision_margin)
            lower_bound == FMax(FSub(m.threshold, m.decision_margin), F(0, 1))
        IN  IF FGe(score, upper_bound) THEN AutoCorrect(score)
            ELSE IF FLt(score, lower_bound) THEN AutoIncorrect(score)
            ELSE NeedsUserDecision(score, user_normalized, correct_normalized)

\* FuzzyMatcher::check_answer
\* a check_answer without the band in which the user decides
check_answer_no_band(m, u, c) ==
    LET user_normalized    == normalize(u)
        correct_normalized == normalize(c)
    IN  IF user_normalized = correct_normalized THEN AutoCorrect(F(1, 1))
        ELSE
        LET score       == jaro_winkler(user_normalized, correct_normalized)
            upper_bound == FAdd(m.threshold, m.decision_margin)
        IN  IF FGe(score, upper_bound) THEN AutoCorrect(score)
            ELSE AutoIncorrect(score)

\* a check_answer that accepts from the threshold on
check_answer_no_margin(m, u, c) ==
    LET user_normalized    == normalize(u)
        correct_normalized == normalize(c)
    IN  IF user_normalized = correct_normalized THEN AutoCorrect(F(1, 1))
        ELSE
        LET score       == jaro_winkler(user_normalized, correct_normalized)
            upper_bound == m.threshold
            lower_bound == FMax(FSub(m.threshold, m.decision_margin), F(0, 1))
        IN  IF FGe(score, upper_bound) THEN AutoCorrect(score)
            ELSE IF FLt(score, lower_bound) THEN AutoIncorrect(score)
            ELSE NeedsUserDecision(score, u, c)

check_answer(m, u, c) ==
    LET user_normalized    == normalize(u)
        correct_normalized == normalize(c)
    IN  IF user_normalized = correct_normalized THEN AutoCorrect(F(1, 1))
        ELSE
        LET score       == jaro_winkler(user_normalized, correct_normalized)
            upper_bound == FAdd(m.threshold, m.decision_margin)
            lower_bound == FMax(FSub(m.threshold, m.decision_margin), F(0, 1))
        IN  IF FGe(score, upper_bound) THEN AutoCorrect(score)
            ELSE IF FLt(score, lower_bound) THEN AutoIncorrect(score)
            ELSE NeedsUserDecision(score, u, c)

\* FuzzyMatcher::similarity
similarity(m, a, b) ==
    LET a_norm == normalize(a)
        b_norm == normalize(b)
    IN  jaro_winkler(a_norm, b_norm)

\* is_similar comparing with > instead of >=
is_similar_gt(m, a, b) == FGt(similarity(m, a, b), m.threshold)

\* FuzzyMatcher::is_similar
is_similar(m, a, b) == FGe(similarity(m, a, b), m.threshold)

----------------------------------------------------------------------------
\* SessionStats (src/modules/learning/models.rs).  The counters are usize;
\* MaxReviews is far below usize::MAX, so no += 1 overflows.

\* #[derive(Default)]: every counter is 0
SessionStats_default ==
    [total_reviewed |-> 0, correct |-> 0, incorrect |-> 0, user_overrides |-> 0]

\* an accuracy without the guard for total_reviewed == 0
accuracy_no_guard(s) ==
    FMul(FDiv(AsF64(s.correct), AsF64(s.total_reviewed)), F(100, 1))

\* SessionStats::accuracy
accuracy(s) ==
    IF s.total_reviewed = 0 THEN F(0, 1)
    ELSE FMul(FDiv(AsF64(s.correct), AsF64(s.total_reviewed)), F(100, 1))

\* a record_correct that also clears user_overrides
record_correct_clears_overrides(s) ==
    [s EXCEPT !.total_reviewed = @ + 1, !.correct = @ + 1, !.user_overrides = 0]

\* SessionStats::record_correct
record_correct(s) ==
    [s EXCEPT !.total_reviewed = @ + 1, !.correct = @ + 1]

\* a record_incorrect that counts into the wrong bucket
record_incorrect_wrong_bucket(s) ==
    [s EXCEPT !.total_reviewed = @ + 1, !.correct = @ + 1]

\* SessionStats::record_incorrect
record_incorrect(s) ==
    [s EXCEPT !.total_reviewed = @ + 1, !.incorrect = @ + 1]

\* a record_override that leaves total_reviewed alone
record_override_uncounted(s, was_correct) ==
    LET counted == [s EXCEPT !.user_overrides = @ + 1]
    IN  IF was_correct THEN [counted EXCEPT !.correct = @ + 1]
        ELSE [counted EXCEPT !.incorrect = @ + 1]

\* a record_override with the two buckets swapped
record_override_swapped(s, was_correct) ==
    LET counted == [s EXCEPT !.total_reviewed = @ + 1, !.user_overrides = @ + 1]
    IN  IF was_correct THEN [counted EXCEPT !.incorrect = @ + 1]
        ELSE [counted EXCEPT !.correct = @ + 1]

\* SessionStats::record_override
record_override(s, was_correct) ==
    LET counted == [s EXCEPT !.total_reviewed = @ + 1, !.user_overrides = @ + 1]
    IN  IF was_correct THEN [counted EXCEPT !.correct = @ + 1]
        ELSE [counted EXCEPT !.incorrect = @ + 1]

----------------------------------------------------------------------------
\* HighScoreManager (src/modules/typing/highscore.rs).  A HighScore is its
\* name and its wpm (the other fields are strings that are stored and read
\* back as they are).  The file's content is empty, text that is no JSON
\* array of scores, or a JSON array of scores.

\* Result<T>
ResultOk(v) == [ok |-> TRUE, val |-> v]
ResultErr(e) == [ok |-> FALSE, err |-> e]

\* Result::unwrap_or_default for a Result<Vec<_>>
unwrap_or_default(r) == IF r.ok THEN r.val ELSE <<>>

\* a file that does not exist
NoFile == [exists |-> FALSE, readable |-> TRUE, content |-> [kind |-> "empty"]]

\* serde_json's writing of an f64: a number, and null for a value that is
\* not finite
json_f64(x) ==
    IF x.nan \/ x.d = 0 THEN [tag |-> "null"] ELSE [tag |-> "number", value |-> x]

\* serde_json::to_writer_pretty of a slice of scores
to_json(scores) ==
    [kind |-> "array",
     items |-> [k \in 1..Len(scores) |->
                  [name |-> scores[k].name, wpm |-> json_f64(scores[k].wpm)]]]

\* serde_json::from_reader::<Vec<HighScore>>: an error for empty content,
\* for content that is no array of scores, and for a wpm that is null
from_json(content) ==
    IF content.kind # "array" THEN ResultErr("parse")
    ELSE IF \E k \in 1..Len(content.items) : content.items[k].wpm.tag = "null"
    THEN ResultErr("parse")
    ELSE ResultOk([k \in 1..Len(content.items) |->
                     [name |-> content.items[k].name,
                      wpm |-> content.items[k].wpm.value]])

\* HighScoreManager::load
load(f) ==
    IF ~f.exists THEN ResultOk(<<>>)
    ELSE IF ~f.readable THEN ResultErr("open")
    ELSE from_json(f.content)

\* HighScoreManager::save; created says whether File::create succeeds.
\* Returns the file afterwards and the Result.
save(f, scores, created) ==
    IF ~created THEN [file |-> f, ret |-> ResultErr("create")]
    ELSE [file |-> [f EXCEPT !.exists = TRUE, !.content = to_json(scores)],
          ret |-> ResultOk(Unit)]

\* the place of x in a list sorted by wpm, descending: behind every
\* element that does not compare less
RECURSIVE insert_sorted(_, _)
insert_sorted(sorted, x) ==
    IF sorted = <<>> THEN <<x>>
    ELSE IF FLt(Head(sorted).wpm, x.wpm) THEN <<x>> \o sorted
    ELSE <<Head(sorted)>> \o insert_sorted(Tail(sorted), x)

\* scores.sort_by(|a, b| b.wpm.partial_cmp(&a.wpm).unwrap_or(Equal)): a
\* stable sort by wpm, descending
RECURSIVE sort_by_wpm(_)
sort_by_wpm(scores) ==
    IF scores = <<>> THEN <<>>
    ELSE insert_sorted(sort_by_wpm(SubSeq(scores, 1, Len(scores) - 1)),
                       Last(scores))

\* Vec::truncate
truncate(scores, n) == SubSeq(scores, 1, Min(Len(scores), n))

\* HighScoreManager::add_score
add_score(f, m, score, created) ==
    LET loaded    == unwrap_or_default(load(f))
        pushed    == Append(loaded, score)
        sorted    == sort_by_wpm(pushed)
        truncated == truncate(sorted, m)
    IN  save(f, truncated, created)

----------------------------------------------------------------------------
\* Config (src/core/config.rs): the fields validate() reads

\* impl Default for Config
Config_default ==
    [learning |-> [fuzzy_threshold |-> F(85, 100), leitner_boxes |-> 5],
     defaults |-> [min_accuracy_for_highscore |-> F(80, 1)]]

\* (lo..=hi).contains(&x) for f64: lo <= x && x <= hi
contains(lo, hi, x) == FLe(lo, x) /\ FLe(x, hi)

\* a validate that accepts a single Leitner box
validate_from_one_box(cfg) ==
    IF ~contains(F(0, 1), F(1, 1), cfg.learning.fuzzy_threshold)
    THEN ResultErr("fuzzy_threshold must be between 0.0 and 1.0")
    ELSE IF ~contains(F(0, 1), F(100, 1), cfg.defaults.min_accuracy_for_highscore)
    THEN ResultErr("min_accuracy_for_highscore must be between 0.0 and 100.0")
    ELSE IF cfg.learning.leitner_boxes < 1 \/ cfg.learning.leitner_boxes > 10
    THEN ResultErr("leitner_boxes must be between 2 and 10")
    ELSE ResultOk(Unit)

\* Config::validate
validate(cfg) ==
    IF ~contains(F(0, 1), F(1, 1), cfg.learning.fuzzy_threshold)
    THEN ResultErr("fuzzy_threshold must be between 0.0 and 1.0")
    ELSE IF ~contains(F(0, 1), F(100, 1), cfg.defaults.min_accuracy_for_highscore)
    THEN ResultErr("min_accuracy_for_highscore must be between 0.0 and 100.0")
    ELSE IF cfg.learning.leitner_boxes < 2 \/ cfg.learning.leitner_boxes > 10
    THEN ResultErr("leitner_boxes must be between 2 and 10")
    ELSE ResultOk(Unit)

----------------------------------------------------------------------------
\* The terminal UI (src/ui/app.rs, src/ui/mod.rs).  A String is the sequence
\* of its characters and a Vec of cards, files or scores a sequence; a key
\* event is <<code>> or <<"Char", c>>.  What a handler reads from outside
\* the App (the word lists, the directory listed, the learning set in a
\* file, the time the test took, whether a file can be written) comes with
\* the key event as env.

\* the characters typed: a, q and ae, which stands for a-umlaut (U+00E4),
\* a character of two bytes in UTF-8
Chars == {"a", "ae", "q"}

\* char::len_utf8
len_utf8(ch) == IF ch = "ae" THEN 2 ELSE 1

\* String::len: the length in bytes
RECURSIVE str_len(_)
str_len(w) == IF w = <<>> THEN 0 ELSE len_utf8(Head(w)) + str_len(Tail(w))

\* str.chars().nth(idx)
chars_nth(w, idx) == IF idx + 1 \in DOMAIN w THEN Some(w[idx + 1]) ELSE None

\* String::pop
string_pop(w) == IF w = <<>> THEN w ELSE SubSeq(w, 1, Len(w) - 1)

\* Vec::get
vec_get(v, idx) == IF idx + 1 \in DOMAIN v THEN Some(v[idx + 1]) ELSE None

\* usize::saturating_sub
saturating_sub(a, b) == IF a >= b THEN a - b ELSE 0

\* the strings over an alphabet of at most k characters
RECURSIVE StringsOver(_, _)
StringsOver(alphabet, k) ==
    IF k = 0 THEN {<<>>}
    ELSE LET shorter == StringsOver(alphabet, k - 1)
         IN  shorter \cup {Append(w, ch) : w \in shorter, ch \in alphabet}

\* App.menu_items
menu_items == <<"Typing Test", "Learning Mode", "Statistics", "Settings", "Quit">>

\* impl Default for TypingState
TypingState_default ==
    [language |-> "English", difficulty |-> "Medium", target_text |-> <<>>,
     typed_text |-> <<>>, start_time |-> None, end_time |-> None,
     error_count |-> 0, is_active |-> FALSE, result |-> None]

\* impl Default for LearningState
LearningState_default ==
    [set |-> None, current_card_index |-> 0, user_input |-> <<>>,
     show_back |-> FALSE, match_result |-> None, correct_count |-> 0,
     total_count |-> 0]

\* impl Default for FileExplorerState; a file listed is "dir" or "file"
FileExplorerState_default == [files |-> <<>>, selected_index |-> 0]

\* impl Default for StatisticsState
StatisticsState_default == [highscores |-> <<>>]

\* App::new
App_new(cfg) ==
    [current_screen |-> "Menu", config |-> cfg, exit |-> FALSE,
     menu_cursor |-> 0, typing_state |-> TypingState_default,
     learning_state |-> LearningState_default,
     file_explorer_state |-> FileExplorerState_default,
     statistics_state |-> StatisticsState_default]

\* Language::from_str and Difficulty::from_str with unwrap_or
parse_language(w) == IF w = "de" THEN "German" ELSE "English"
parse_difficulty(w) ==
    IF w = "Easy" THEN "Easy" ELSE IF w = "Hard" THEN "Hard" ELSE "Medium"

\* App::reset_typing
reset_typing(a) ==
    [a EXCEPT !.typing_state =
        [TypingState_default EXCEPT
            !.language = parse_language(a.config.language),
            !.difficulty = parse_difficulty(a.config.difficulty)]]

\* what a handler leaves: the App and the two files it writes
Handled(a, d) == [app |-> a, disk |-> d]

\* TestResult::calculate, with the words per minute the duration gives;
\* of its fields the handlers pass on wpm and error_count
TestResult_calculate(wpm, error_count) ==
    [wpm |-> wpm, error_count |-> error_count]

\* HighScore::from_result
HighScore_from_result(name, result) == [name |-> name, wpm |-> result.wpm]

\* check_typing_completion; start_time is Some here, the Char branch has
\* set it
check_typing_completion(a, d, env) ==
    LET ts == a.typing_state
    IN  IF str_len(ts.typed_text) >= str_len(ts.target_text)
        THEN LET result == TestResult_calculate(env.wpm, ts.error_count)
                 score  == HighScore_from_result("Player", result)
                 saved  == add_score(d.highscore_file, a.config.max_highscores,
                                     score, env.created)
             IN  Handled([a EXCEPT !.typing_state.end_time = Some("now"),
                                   !.typing_state.is_active = FALSE,
                                   !.typing_state.result = Some(result),
                                   !.current_screen = "TypingResults"],
                         [d EXCEPT !.highscore_file = saved.file])
        ELSE Handled(a, d)

\* the Char branch of handle_typing_input
typing_char(a, d, c, env) ==
    LET started == IF ~a.typing_state.is_active
                   THEN [a EXCEPT !.typing_state.is_active = TRUE,
                                  !.typing_state.start_time = Some("now")]
                   ELSE a
        pushed  == [started EXCEPT !.typing_state.typed_text = Append(@, c)]
        idx     == str_len(pushed.typing_state.typed_text) - 1
        target  == chars_nth(pushed.typing_state.target_text, idx)
        counted == IF target # None
                   THEN IF c # target[1]
                        THEN [pushed EXCEPT !.typing_state.error_count = @ + 1]
                        ELSE pushed
                   ELSE [pushed EXCEPT !.typing_state.error_count = @ + 1]
    IN  check_typing_completion(counted, d, env)

\* handle_typing_input
handle_typing_input(a, d, key, env) ==
    IF key = <<"Esc">>
    THEN Handled([a EXCEPT !.current_screen = "Menu",
                           !.typing_state.is_active = FALSE], d)
    ELSE IF key[1] = "Char" THEN typing_char(a, d, key[2], env)
    ELSE IF key = <<"Backspace">>
    THEN Handled([a EXCEPT !.typing_state.typed_text = string_pop(@)], d)
    ELSE Handled(a, d)

\* refresh_file_list: the parent and the entries of the directory, the
\* directories first
refresh_file_list(a, env) == [a EXCEPT !.file_explorer_state.files = env.files]

\* handle_learning_select_input
handle_learning_select_input(a, d, key, env) ==
    LET fs == a.file_explorer_state
    IN  IF key = <<"Esc">> THEN Handled([a EXCEPT !.current_screen = "Menu"], d)
        ELSE IF key = <<"Up">>
        THEN IF fs.selected_index > 0
             THEN Handled([a EXCEPT !.file_explorer_state.selected_index = @ - 1], d)
             ELSE Handled(a, d)
        ELSE IF key = <<"Down">>
        THEN IF fs.selected_index < saturating_sub(Len(fs.files), 1)
             THEN Handled([a EXCEPT !.file_explorer_state.selected_index = @ + 1], d)
             ELSE Handled(a, d)
        ELSE IF key = <<"Enter">>
        THEN LET path == vec_get(fs.files, fs.selected_index)
             IN  IF path = None THEN Handled(a, d)
                 ELSE IF path[1] = "dir"
                 THEN Handled(refresh_file_list(
                          [a EXCEPT !.file_explorer_state.selected_index = 0],
                          env), d)
                 ELSE IF env.set.ok
                 THEN Handled([a EXCEPT
                          !.learning_state =
                              [LearningState_default EXCEPT
                                  !.set = Some(env.set.val)],
                          !.current_screen = "LearningMode"], d)
                 ELSE Handled(a, d)
        ELSE Handled(a, d)

\* a handle_learning_mode_input whose Enter, with the back shown, goes on
\* without clearing the result
handle_learning_mode_input_keeps_result(a, d, key, env) ==
    LET ls == a.learning_state
    IN  IF key = <<"Esc">> THEN Handled([a EXCEPT !.current_screen = "Menu"], d)
        ELSE IF key[1] = "Char"
        THEN IF ~ls.show_back
             THEN Handled([a EXCEPT !.learning_state.user_input =
                                        Append(@, key[2])], d)
             ELSE Handled(a, d)
        ELSE IF key = <<"Backspace">>
        THEN IF ~ls.show_back
             THEN Handled([a EXCEPT !.learning_state.user_input =
                                        string_pop(@)], d)
             ELSE Handled(a, d)
        ELSE IF key = <<"Enter">>
        THEN IF ls.show_back
             THEN Handled([a EXCEPT
                      !.learning_state.current_card_index = @ + 1,
                      !.learning_state.user_input = <<>>,
                      !.learning_state.show_back = FALSE], d)
             ELSE IF ls.set = None THEN Handled(a, d)
             ELSE LET card == vec_get(ls.set[1].cards, ls.current_card_index)
                  IN  IF card = None THEN Handled(a, d)
                      ELSE LET m      == FuzzyMatcher_new(a.config.fuzzy_threshold,
                                                         F(10, 100))
                               result == check_answer(m, ls.user_input,
                                                      card[1].back)
                           IN  Handled([a EXCEPT
                                   !.learning_state.match_result = Some(result),
                                   !.learning_state.show_back = TRUE], d)
        ELSE Handled(a, d)

\* handle_learning_mode_input
handle_learning_mode_input(a, d, key, env) ==
    LET ls == a.learning_state
    IN  IF key = <<"Esc">> THEN Handled([a EXCEPT !.current_screen = "Menu"], d)
        ELSE IF key[1] = "Char"
        THEN IF ~ls.show_back
             THEN Handled([a EXCEPT !.learning_state.user_input =
                                        Append(@, key[2])], d)
             ELSE Handled(a, d)
        ELSE IF key = <<"Backspace">>
        THEN IF ~ls.show_back
             THEN Handled([a EXCEPT !.learning_state.user_input =
                                        string_pop(@)], d)
             ELSE Handled(a, d)
        ELSE IF key = <<"Enter">>
        THEN IF ls.show_back
             THEN Handled([a EXCEPT
                      !.learning_state.current_card_index = @ + 1,
                      !.learning_state.user_input = <<>>,
                      !.learning_state.show_back = FALSE,
                      !.learning_state.match_result = None], d)
             ELSE IF ls.set = None THEN Handled(a, d)
             ELSE LET card == vec_get(ls.set[1].cards, ls.current_card_index)
                  IN  IF card = None THEN Handled(a, d)
                      ELSE LET m      == FuzzyMatcher_new(a.config.fuzzy_threshold,
                                                         F(10, 100))
                               result == check_answer(m, ls.user_input,
                                                      card[1].back)
                           IN  Handled([a EXCEPT
                                   !.learning_state.match_result = Some(result),
                                   !.learning_state.show_back = TRUE], d)
        ELSE Handled(a, d)

\* handle_settings_input; Config::save_to_file writes the settings when
\* the file can be written
handle_settings_input(a, d, key, env) ==
    IF key = <<"Esc">> THEN Handled([a EXCEPT !.current_screen = "Menu"], d)
    ELSE IF key = <<"Char", "l">>
    THEN Handled([a EXCEPT !.config.language =
                      IF @ = "en" THEN "de" ELSE "en"], d)
    ELSE IF key = <<"Char", "d">>
    THEN Handled([a EXCEPT !.config.difficulty =
                      IF @ = "Easy" THEN "Medium"
                      ELSE IF @ = "Medium" THEN "Hard" ELSE "Easy"], d)
    ELSE IF key = <<"Char", "s">>
    THEN IF env.written
         THEN Handled(a, [d EXCEPT !.config_file =
                              Some([language |-> a.config.language,
                                    difficulty |-> a.config.difficulty])])
         ELSE Handled(a, d)
    ELSE Handled(a, d)

\* the Up and Down branches of a handle_menu_input that stops at both ends
menu_move_no_wrap(a, key) ==
    IF key = <<"Up">>
    THEN IF a.menu_cursor > 0 THEN [a EXCEPT !.menu_cursor = @ - 1] ELSE a
    ELSE IF a.menu_cursor < Len(menu_items) - 1
         THEN [a EXCEPT !.menu_cursor = @ + 1] ELSE a

\* the Up and Down branches of handle_menu_input
menu_move(a, key) ==
    IF key = <<"Up">>
    THEN IF a.menu_cursor > 0 THEN [a EXCEPT !.menu_cursor = @ - 1]
         ELSE [a EXCEPT !.menu_cursor = Len(menu_items) - 1]
    ELSE IF a.menu_cursor < Len(menu_items) - 1
         THEN [a EXCEPT !.menu_cursor = @ + 1]
         ELSE [a EXCEPT !.menu_cursor = 0]

\* handle_menu_input
handle_menu_input(a, d, key, env) ==
    IF key = <<"Char", "q">> \/ key = <<"Esc">>
    THEN Handled([a EXCEPT !.exit = TRUE], d)
    ELSE IF key = <<"Up">> \/ key = <<"Down">> THEN Handled(menu_move(a, key), d)
    ELSE IF key = <<"Enter">>
    THEN IF a.menu_cursor = 0
         THEN LET fresh == reset_typing(a)
              IN  IF env.text.ok
                  THEN Handled([fresh EXCEPT
                           !.typing_state.target_text = env.text.val,
                           !.current_screen = "TypingTest"], d)
                  ELSE Handled(fresh, d)
         ELSE IF a.menu_cursor = 1
         THEN Handled(refresh_file_list(
                  [a EXCEPT !.current_screen = "LearningSelect"], env), d)
         ELSE IF a.menu_cursor = 2
         THEN LET scores == load(d.highscore_file)
              IN  IF scores.ok
                  THEN Handled([a EXCEPT
                           !.current_screen = "Statistics",
                           !.statistics_state.highscores = scores.val], d)
                  ELSE Handled([a EXCEPT !.current_screen = "Statistics"], d)
         ELSE IF a.menu_cursor = 3
         THEN Handled([a EXCEPT !.current_screen = "Settings"], d)
         ELSE IF a.menu_cursor = 4
         THEN Handled([a EXCEPT !.exit = TRUE], d)
         ELSE Handled(a, d)
    ELSE Handled(a, d)

\* handle_key_event
handle_key_event(a, d, key, env) ==
    IF a.current_screen = "Menu" THEN handle_menu_input(a, d, key, env)
    ELSE IF a.current_screen = "TypingTest"
    THEN handle_typing_input(a, d, key, env)
    ELSE IF a.current_screen = "LearningSelect"
    THEN handle_learning_select_input(a, d, key, env)
    ELSE IF a.current_screen = "LearningMode"
    THEN handle_learning_mode_input(a, d, key, env)
    ELSE IF a.current_screen = "Settings"
    THEN handle_settings_input(a, d, key, env)
    ELSE IF a.current_screen = "TypingResults"
    THEN IF key = <<"Enter">> \/ key = <<"Esc">>
         THEN Handled([a EXCEPT !.current_screen = "Menu"], d)
         ELSE Handled(a, d)
    ELSE IF key = <<"Esc">>
         THEN Handled([a EXCEPT !.current_screen = "Menu"], d)
         ELSE Handled(a, d)

----------------------------------------------------------------------------
\* The state machine: one action per method

self == [num_boxes |-> num_boxes, boxes |-> boxes,
         item_locations |-> item_locations]

\* The order of arrival after new and after reset: every item in box 0, in
\* ascending id
InAscendingId(nb, ni) ==
    [b \in 0..(nb - 1) |-> IF b = 0 THEN [k \in 1..ni |-> k - 1] ELSE <<>>]

\* The order of arrival after an answer on item_id whose outcome is r: a
\* valid item leaves the box it was in and arrives, last, in the box the
\* scheduler records for it
Arrive(arr, item_id, r) ==
    IF r.panicked \/ ~InBounds(r.self.item_locations, item_id) THEN arr
    ELSE [b \in DOMAIN arr |->
            LET others == SelectSeq(arr[b], LAMBDA id : id # item_id)
            IN  IF b = r.self.item_locations[item_id]
                THEN Append(others, item_id) ELSE others]

\* The effect of a call whose outcome is r
Returns(r) ==
    /\ old' = self
    /\ num_boxes' = r.self.num_boxes
    /\ boxes' = r.self.boxes
    /\ item_locations' = r.self.item_locations
    /\ panicked' = r.panicked
    /\ ret' = r.ret
    /\ UNCHANGED num_items
    /\ UNCHANGED <<matcherVars, statsVars, highscoreVars, configVars, uiVars>>

\* the App of the UI, with the Config fields its handlers read, and the
\* two files its handlers write
app ==
    [current_screen |-> current_screen,
     config |-> [language |-> language, difficulty |-> difficulty,
                 fuzzy_threshold |-> fuzzy_threshold,
                 max_highscores |-> max_scores],
     exit |-> exit, menu_cursor |-> menu_cursor,
     typing_state |-> typing_state, learning_state |-> learning_state,
     file_explorer_state |-> file_explorer_state,
     statistics_state |-> statistics_state]

disk == [highscore_file |-> file, config_file |-> config_file]

\* the App that App::new makes of cfg, before any key event
Started(cfg) ==
    LET a == App_new(cfg)
    IN  /\ current_screen = a.current_screen
        /\ exit = a.exit
        /\ menu_cursor = a.menu_cursor
        /\ typing_state = a.typing_state
        /\ learning_state = a.learning_state
        /\ file_explorer_state = a.file_explorer_state
        /\ statistics_state = a.statistics_state
        /\ language = a.config.language
        /\ difficulty = a.config.difficulty

\* the UI's part of the state while another component runs: no key event
UiIdle ==
    /\ Started([language |-> "en", difficulty |-> "medium",
                fuzzy_threshold |-> fuzzy_threshold,
                max_highscores |-> max_scores])
    /\ config_file = None
    /\ old_app = app
    /\ keys_handled = 0

\* the session's part of the state while another component runs: fresh
\* statistics
StatsIdle ==
    /\ total_reviewed = SessionStats_default.total_reviewed
    /\ correct = SessionStats_default.correct
    /\ incorrect = SessionStats_default.incorrect
    /\ user_overrides = SessionStats_default.user_overrides
    /\ old_stats = SessionStats_default

\* the configuration's part of the state while another component runs: the
\* default configuration
ConfigIdle ==
    /\ fuzzy_threshold = Config_default.learning.fuzzy_threshold
    /\ min_accuracy_for_highscore = Config_default.defaults.min_accuracy_for_highscore
    /\ leitner_boxes = Config_default.learning.leitner_boxes

\* the highscores' part of the state while another component runs: no
\* file, nothing added
HighscoreIdle ==
    /\ file = NoFile
    /\ max_scores = 0
    /\ old_file = NoFile
    /\ added = <<>>

\* the matcher's part of the state while the scheduler runs: the default
\* matcher, with nothing to compare
MatcherIdle ==
    /\ threshold = FuzzyMatcher_default.threshold
    /\ decision_margin = FuzzyMatcher_default.decision_margin
    /\ given = <<F(85, 100), F(10, 100)>>
    /\ user_input = <<>>
    /\ correct_answer = <<>>
    /\ jw = F(1, 1)

\* the state after LeitnerBox::new(nb, ni)
New(nb, ni) ==
    LET r == new(nb, ni)
    IN  /\ num_boxes = r.self.num_boxes
        /\ boxes = r.self.boxes
        /\ item_locations = r.self.item_locations
        /\ num_items = ni
        /\ panicked = r.panicked
        /\ call = <<"new", nb, ni>>
        /\ old = r.self
        /\ ret = r.ret
        /\ streak = [i \in 0..(ni - 1) |-> 0]
        /\ arrival = InAscendingId(nb, ni)

Init ==
    /\ ConfigIdle
    /\ MatcherIdle
    /\ StatsIdle
    /\ HighscoreIdle
    /\ \E nb \in 0..MaxBoxes, ni \in 0..MaxItems : New(nb, ni)
    /\ UiIdle

AnswerCorrect ==
    \E item_id \in Ids :
        /\ ~panicked
        /\ call' = <<"answer_correct", item_id>>
        /\ Returns(answer_correct(self, item_id))
        /\ streak' = IF InBounds(streak, item_id)
                     THEN [streak EXCEPT ![item_id] = Min(@ + 1, num_boxes)]
                     ELSE streak
        /\ arrival' = Arrive(arrival, item_id, answer_correct(self, item_id))

AnswerIncorrect ==
    \E item_id \in Ids :
        /\ ~panicked
        /\ call' = <<"answer_incorrect", item_id>>
        /\ Returns(answer_incorrect(self, item_id))
        /\ streak' = IF InBounds(streak, item_id)
                     THEN [streak EXCEPT ![item_id] = 0]
                     ELSE streak
        /\ arrival' = Arrive(arrival, item_id, answer_incorrect(self, item_id))

Reset ==
    /\ ~panicked
    /\ call' = <<"reset">>
    /\ Returns(reset(self))
    /\ streak' = [i \in DOMAIN streak |-> 0]
    /\ arrival' = InAscendingId(num_boxes, num_items)

GetNextItem ==
    /\ ~panicked
    /\ call' = <<"get_next_item">>
    /\ Returns(get_next_item(self))
    /\ UNCHANGED <<streak, arrival>>

GetItemBox ==
    \E item_id \in Ids :
        /\ ~panicked
        /\ call' = <<"get_item_box", item_id>>
        /\ Returns(get_item_box(self, item_id))
        /\ UNCHANGED <<streak, arrival>>

GetBoxCounts ==
    /\ ~panicked
    /\ call' = <<"get_box_counts">>
    /\ Returns(get_box_counts(self))
    /\ UNCHANGED <<streak, arrival>>

RemainingItems ==
    /\ ~panicked
    /\ call' = <<"remaining_items">>
    /\ Returns(remaining_items(self))
    /\ UNCHANGED <<streak, arrival>>

AllMastered ==
    /\ ~panicked
    /\ call' = <<"all_mastered">>
    /\ Returns(all_mastered(self))
    /\ UNCHANGED <<streak, arrival>>

Summary ==
    /\ ~panicked
    /\ call' = <<"summary">>
    /\ Returns(summary(self))
    /\ UNCHANGED <<streak, arrival>>

MasteryPercentage ==
    /\ ~panicked
    /\ call' = <<"mastery_percentage">>
    /\ Returns(summary_mastery_percentage(self))
    /\ UNCHANGED <<streak, arrival>>

Next ==
    \/ AnswerCorrect
    \/ AnswerIncorrect
    \/ Reset
    \/ GetNextItem
    \/ GetItemBox
    \/ GetBoxCounts
    \/ RemainingItems
    \/ AllMastered
    \/ Summary
    \/ MasteryPercentage

Spec == Init /\ [][Next]_vars

\* Runs in which items are only ever answered correctly: no answer_incorrect
\* and no reset since new, so that streak counts the answer_correct calls an
\* item has received since new.
NextMastery ==
    \/ AnswerCorrect
    \/ AllMastered
    \/ Summary
    \/ MasteryPercentage

SpecMastery == Init /\ [][NextMastery]_vars

\* A review loop over the scheduler, which starts on a fresh or on a reset
\* scheduler and is restarted when it is done:
\*   loop { while !all_mastered() { let id = get_next_item();
\*                                  answer_correct(id) }
\*          reset() }
\* The last call tells where the loop is. The loop condition and the call
\* it leads to are one step.
\* the loop is about to evaluate its condition
AtLoopHead ==
    /\ ~panicked
    /\ call[1] \in {"new", "reset", "answer_correct"}

\* all_mastered() returns v here
AllMasteredIs(v) ==
    LET m == all_mastered(self)
    IN  IF m.panicked THEN FALSE ELSE m.ret = v

\* the last call was get_next_item() and it returned an item
TookAnItem ==
    IF call = <<"get_next_item">> /\ ~panicked THEN ret # None ELSE FALSE

\* while !all_mastered() { let id = get_next_item(); ...
ReviewTake ==
    /\ AtLoopHead
    /\ IF all_mastered(self).panicked
       THEN AllMastered
       ELSE AllMasteredIs(FALSE) /\ GetNextItem

\* ... answer_correct(id) }
ReviewAnswer ==
    /\ TookAnItem
    /\ AnswerCorrect
    /\ call' = <<"answer_correct", ret[1]>>

\* reset(), when the loop is done or before it has begun
ReviewRestart ==
    /\ AtLoopHead
    /\ AllMasteredIs(TRUE) \/ call[1] = "new"
    /\ Reset

NextReview ==
    \/ ReviewTake
    \/ ReviewAnswer
    \/ ReviewRestart

\* the loop is run on as many items as there are ids in Ids
InitReview ==
    /\ ConfigIdle
    /\ MatcherIdle
    /\ StatsIdle
    /\ HighscoreIdle
    /\ \E nb \in 0..MaxBoxes, ni \in 0..Cardinality(Ids) : New(nb, ni)
    /\ UiIdle

\* the loop keeps running
SpecReview == InitReview /\ [][NextReview]_vars /\ WF_vars(NextReview)

----------------------------------------------------------------------------
\* The matcher: a matcher is built from given arguments and its methods are
\* applied to a pair of strings

\* the thresholds and margins given to FuzzyMatcher::new: in and out of
\* range, the defaults, the infinities and NaN
GivenThresholds ==
    {F(n, Scale) : n \in (-1)..(Scale + 1)} \cup {F(85, 100), F(1, 0), F(-1, 0), NaN}
GivenMargins ==
    {F(n, Scale) : n \in (-1)..((Scale \div 2) + 1)} \cup {F(10, 100), NaN}

\* the scores jaro_winkler may return: 0.0 to 1.0
Scores == {F(n, Scale) : n \in 0..Scale} \cup {F(95, 100)}

matcher == [threshold |-> threshold, decision_margin |-> decision_margin]

\* the scheduler's part of the state while the matcher runs: no scheduler
SchedulerIdle ==
    /\ num_boxes = 0
    /\ boxes = <<>>
    /\ item_locations = <<>>
    /\ num_items = 0
    /\ old = [num_boxes |-> 0, boxes |-> <<>>, item_locations |-> <<>>]
    /\ streak = <<>>
    /\ arrival = <<>>

InitMatcher ==
    /\ ConfigIdle
    /\ SchedulerIdle
    /\ StatsIdle
    /\ HighscoreIdle
    /\ panicked = FALSE
    /\ ret = Unit
    /\ \E t \in GivenThresholds, m \in GivenMargins :
           /\ given = <<t, m>>
           /\ threshold = FuzzyMatcher_new(t, m).threshold
           /\ decision_margin = FuzzyMatcher_new(t, m).decision_margin
           /\ call = <<"FuzzyMatcher::new">>
    /\ user_input \in Strings
    /\ correct_answer \in Answers
    /\ jw \in IF normalize(user_input) = normalize(correct_answer)
              THEN {F(1, 1)} ELSE Scores
    /\ UiIdle

CheckAnswer ==
    /\ call' = <<"check_answer">>
    /\ ret' = check_answer(matcher, user_input, correct_answer)
    /\ UNCHANGED <<schedulerVars, matcherVars, statsVars, highscoreVars,
                    configVars, uiVars, panicked>>

Similarity ==
    /\ call' = <<"similarity">>
    /\ ret' = similarity(matcher, user_input, correct_answer)
    /\ UNCHANGED <<schedulerVars, matcherVars, statsVars, highscoreVars,
                    configVars, uiVars, panicked>>

IsSimilar ==
    /\ call' = <<"is_similar">>
    /\ ret' = is_similar(matcher, user_input, correct_answer)
    /\ UNCHANGED <<schedulerVars, matcherVars, statsVars, highscoreVars,
                    configVars, uiVars, panicked>>

NextMatcher ==
    \/ CheckAnswer

SpecMatcher == InitMatcher /\ [][NextMatcher]_vars

\* the matcher's two derived queries, applied to the same inputs
NextSimilarity ==
    \/ Similarity
    \/ IsSimilar

SpecSimilarity == InitMatcher /\ [][NextSimilarity]_vars

----------------------------------------------------------------------------
\* The session statistics: starting from SessionStats::default(), answers
\* are recorded and the accuracy is read

stats == [total_reviewed |-> total_reviewed, correct |-> correct,
          incorrect |-> incorrect, user_overrides |-> user_overrides]

\* The effect of a &mut self method that leaves the statistics as s
Records(s) ==
    /\ old_stats' = stats
    /\ total_reviewed' = s.total_reviewed
    /\ correct' = s.correct
    /\ incorrect' = s.incorrect
    /\ user_overrides' = s.user_overrides
    /\ ret' = Unit
    /\ UNCHANGED <<schedulerVars, matcherVars, highscoreVars, configVars, uiVars,
                    panicked>>

InitStats ==
    /\ ConfigIdle
    /\ SchedulerIdle
    /\ MatcherIdle
    /\ StatsIdle
    /\ HighscoreIdle
    /\ panicked = FALSE
    /\ call = <<"SessionStats::default">>
    /\ ret = Unit
    /\ UiIdle

RecordCorrect ==
    /\ total_reviewed < MaxReviews
    /\ call' = <<"record_correct">>
    /\ Records(record_correct(stats))

RecordIncorrect ==
    /\ total_reviewed < MaxReviews
    /\ call' = <<"record_incorrect">>
    /\ Records(record_incorrect(stats))

RecordOverride ==
    \E was_correct \in BOOLEAN :
        /\ total_reviewed < MaxReviews
        /\ call' = <<"record_override", was_correct>>
        /\ Records(record_override(stats, was_correct))

Accuracy ==
    /\ call' = <<"accuracy">>
    /\ ret' = accuracy(stats)
    /\ old_stats' = stats
    /\ UNCHANGED <<total_reviewed, correct, incorrect, user_overrides>>
    /\ UNCHANGED <<schedulerVars, matcherVars, highscoreVars, configVars, uiVars,
                    panicked>>

NextStats ==
    \/ RecordCorrect
    \/ RecordIncorrect
    \/ RecordOverride
    \/ Accuracy

SpecStats == InitStats /\ [][NextStats]_vars

----------------------------------------------------------------------------
\* The highscores: a manager is made for a file that is absent, freshly
\* created and empty, or filled with something that is no list of scores,
\* and that can or cannot be opened for reading; scores are added and the
\* list is loaded

\* the WPM values of the scores added
Wpms == {F(10 * w, 1) : w \in 0..MaxWpm} \cup {F(1, 0)}

InitHighscore ==
    /\ ConfigIdle
    /\ SchedulerIdle
    /\ MatcherIdle
    /\ StatsIdle
    /\ panicked = FALSE
    /\ call = <<"HighScoreManager::new">>
    /\ ret = Unit
    /\ max_scores \in 0..MaxKeep
    /\ file \in {NoFile}
             \cup [exists : {TRUE}, readable : BOOLEAN,
                   content : {[kind |-> "empty"], [kind |-> "garbage"]}]
    /\ old_file = file
    /\ added = <<>>
    /\ UiIdle

AddScore ==
    \E wpm \in Wpms, created \in BOOLEAN :
        LET score == [name |-> Len(added) + 1, wpm |-> wpm]
            r     == add_score(file, max_scores, score, created)
        IN  /\ Len(added) < MaxAdds
            /\ call' = <<"add_score", score, created>>
            /\ old_file' = file
            /\ file' = r.file
            /\ ret' = r.ret
            /\ added' = IF r.ret.ok THEN Append(added, score) ELSE added
            /\ UNCHANGED <<schedulerVars, matcherVars, statsVars, configVars, uiVars,
                           max_scores, panicked>>

Load ==
    /\ call' = <<"load">>
    /\ old_file' = file
    /\ ret' = load(file)
    /\ UNCHANGED <<schedulerVars, matcherVars, statsVars, configVars, uiVars, file,
                   max_scores, added, panicked>>

NextHighscore ==
    \/ AddScore
    \/ Load

SpecHighscore == InitHighscore /\ [][NextHighscore]_vars

----------------------------------------------------------------------------
\* The configuration: a configuration is loaded with any values of the
\* three fields and validated

\* the accuracies a configuration may hold: in and out of 0..100, the
\* default and NaN
GivenAccuracies ==
    {F(100 * n, Scale) : n \in (-1)..(Scale + 1)} \cup {F(80, 1), NaN}

config ==
    [learning |-> [fuzzy_threshold |-> fuzzy_threshold,
                   leitner_boxes |-> leitner_boxes],
     defaults |-> [min_accuracy_for_highscore |-> min_accuracy_for_highscore]]

InitConfig ==
    /\ SchedulerIdle
    /\ MatcherIdle
    /\ StatsIdle
    /\ HighscoreIdle
    /\ panicked = FALSE
    /\ call = <<"Config::load">>
    /\ ret = Unit
    /\ fuzzy_threshold \in GivenThresholds
    /\ min_accuracy_for_highscore \in GivenAccuracies
    /\ leitner_boxes \in 0..MaxConfigBoxes
    /\ UiIdle

Validate ==
    /\ call' = <<"validate">>
    /\ ret' = validate(config)
    /\ UNCHANGED <<schedulerVars, matcherVars, statsVars, highscoreVars,
                   configVars, uiVars, panicked>>

NextConfig ==
    \/ Validate

SpecConfig == InitConfig /\ [][NextConfig]_vars

----------------------------------------------------------------------------
\* The UI: handle_key_event on the App, one key event per step

\* the key events: the keys the handlers match
KeyCodes == {<<"Esc">>, <<"Enter">>, <<"Up">>, <<"Down">>, <<"Backspace">>}
TextKeys == KeyCodes \cup {<<"Char", c>> : c \in Chars}
Keys == TextKeys \cup {<<"Char", c>> : c \in {"l", "d", "s"}}

\* the texts WordLoader::generate_text may return, and its failure
Texts == StringsOver({"a", "ae"}, MaxText)
GeneratedTexts == {ResultErr("io")} \cup {ResultOk(t) : t \in Texts}

\* the learning sets load_auto may return, and its failure
CardBacks == {<<"a">>, <<"q">>}
RECURSIVE CardsOfLen(_)
CardsOfLen(k) ==
    IF k = 0 THEN {<<>>}
    ELSE {Append(cs, [back |-> b]) : cs \in CardsOfLen(k - 1), b \in CardBacks}
LearningSets == {[cards |-> cs] : cs \in UNION {CardsOfLen(k) : k \in 0..MaxCards}}
LoadedSets == {ResultErr("io")} \cup {ResultOk(set) : set \in LearningSets}

\* the lists refresh_file_list may build: the directories first
FileLists ==
    {[k \in 1..(n[1] + n[2]) |-> IF k <= n[1] THEN "dir" ELSE "file"] :
        n \in {m \in (0..MaxFiles) \X (0..MaxFiles) : m[1] + m[2] <= MaxFiles}}

\* the words per minute TestResult::calculate may find
FiniteWpms == {F(10 * w, 1) : w \in 0..MaxWpm}

\* what the handler of this key event reads from outside the App
NoInput ==
    [text |-> ResultErr("io"), files |-> <<>>, set |-> ResultErr("io"),
     wpm |-> F(0, 1), created |-> FALSE, written |-> FALSE]

Inputs(a, key) ==
    IF a.current_screen = "Menu" /\ key = <<"Enter">>
    THEN IF a.menu_cursor = 0
         THEN {[NoInput EXCEPT !.text = t] : t \in GeneratedTexts}
         ELSE IF a.menu_cursor = 1
         THEN {[NoInput EXCEPT !.files = l] : l \in FileLists}
         ELSE {NoInput}
    ELSE IF a.current_screen = "LearningSelect" /\ key = <<"Enter">>
    THEN LET path == vec_get(a.file_explorer_state.files,
                             a.file_explorer_state.selected_index)
         IN  IF path = None THEN {NoInput}
             ELSE IF path[1] = "dir"
             THEN {[NoInput EXCEPT !.files = l] : l \in FileLists}
             ELSE {[NoInput EXCEPT !.set = r] : r \in LoadedSets}
    ELSE IF /\ a.current_screen = "TypingTest" /\ key[1] = "Char"
            /\ str_len(Append(a.typing_state.typed_text, key[2])) >=
                   str_len(a.typing_state.target_text)
    THEN \* the test is complete with this character
         {[NoInput EXCEPT !.wpm = w, !.created = c] :
             w \in FiniteWpms, c \in BOOLEAN}
    ELSE IF a.current_screen = "Settings" /\ key = <<"Char", "s">>
    THEN {[NoInput EXCEPT !.written = w] : w \in BOOLEAN}
    ELSE {NoInput}

\* the counters a Char key raises stay within the bounds
WithinBounds(key) ==
    key[1] = "Char" =>
        /\ current_screen = "TypingTest" => typing_state.error_count < MaxErrors
        /\ current_screen = "LearningMode" =>
               Len(learning_state.user_input) < MaxInput

Handles(key, r) ==
    /\ call' = <<"handle_key_event", key>>
    /\ ret' = Unit
    /\ old_app' = app
    /\ keys_handled' = Min(keys_handled + 1, MaxKeys)
    /\ current_screen' = r.app.current_screen
    /\ exit' = r.app.exit
    /\ menu_cursor' = r.app.menu_cursor
    /\ typing_state' = r.app.typing_state
    /\ learning_state' = r.app.learning_state
    /\ file_explorer_state' = r.app.file_explorer_state
    /\ statistics_state' = r.app.statistics_state
    /\ language' = r.app.config.language
    /\ difficulty' = r.app.config.difficulty
    /\ file' = r.disk.highscore_file
    /\ config_file' = r.disk.config_file
    /\ UNCHANGED <<schedulerVars, matcherVars, statsVars, configVars,
                   max_scores, old_file, added, panicked>>

\* run's loop: a key event is handled unless exit is set
KeyEvent(keys) ==
    /\ ~exit
    /\ \E key \in keys :
        /\ WithinBounds(key)
        /\ \E env \in Inputs(app, key) :
               Handles(key, handle_key_event(app, disk, key, env))

\* what the UI starts from: the default configuration, no highscore file,
\* and one of the scores for what jaro_winkler gives to different strings
UiEnvironment(scores) ==
    /\ ConfigIdle
    /\ SchedulerIdle
    /\ StatsIdle
    /\ threshold = FuzzyMatcher_default.threshold
    /\ decision_margin = FuzzyMatcher_default.decision_margin
    /\ given = <<F(85, 100), F(10, 100)>>
    /\ user_input = <<>>
    /\ correct_answer = <<>>
    /\ jw \in scores
    /\ file = NoFile
    /\ max_scores = MaxKeep
    /\ old_file = NoFile
    /\ added = <<>>
    /\ config_file = None
    /\ panicked = FALSE
    /\ ret = Unit

UiConfig ==
    [language |-> "en", difficulty |-> "medium",
     fuzzy_threshold |-> fuzzy_threshold, max_highscores |-> max_scores]

InitUi ==
    /\ UiEnvironment({F(Scale \div 2, Scale)})
    /\ Started(UiConfig)
    /\ old_app = app
    /\ keys_handled = 0
    /\ call = <<"App::new">>

\* any key event, at most MaxKeys of them
HandleKeyEvent ==
    /\ keys_handled < MaxKeys
    /\ KeyEvent(Keys)

NextUi ==
    \/ HandleKeyEvent

SpecUi == InitUi /\ [][NextUi]_vars

\* the App in which a typing test on the text has just begun: Enter on the
\* menu's first entry
InitTyping ==
    /\ UiEnvironment(Scores)
    /\ \E text \in Texts :
        LET before == App_new(UiConfig)
            r      == handle_menu_input(before, disk, <<"Enter">>,
                                        [NoInput EXCEPT !.text = ResultOk(text)])
        IN  /\ current_screen = r.app.current_screen
            /\ exit = r.app.exit
            /\ menu_cursor = r.app.menu_cursor
            /\ typing_state = r.app.typing_state
            /\ learning_state = r.app.learning_state
            /\ file_explorer_state = r.app.file_explorer_state
            /\ statistics_state = r.app.statistics_state
            /\ language = r.app.config.language
            /\ difficulty = r.app.config.difficulty
            /\ old_app = before
    /\ keys_handled = 1
    /\ call = <<"handle_key_event", <<"Enter">>>>

\* a key event while the typing test is on the screen
HandleTypingInput ==
    /\ current_screen = "TypingTest"
    /\ KeyEvent(TextKeys)

NextTyping ==
    \/ HandleTypingInput

SpecTyping == InitTyping /\ [][NextTyping]_vars

\* the App in which a learning set has just been loaded: Enter on a file of
\* the file explorer
InitLearning ==
    /\ UiEnvironment(Scores)
    /\ \E set \in LearningSets :
        LET before == [App_new(UiConfig) EXCEPT
                           !.current_screen = "LearningSelect",
                           !.file_explorer_state.files = <<"file">>]
            r      == handle_learning_select_input(before, disk, <<"Enter">>,
                          [NoInput EXCEPT !.set = ResultOk(set)])
        IN  /\ current_screen = r.app.current_screen
            /\ exit = r.app.exit
            /\ menu_cursor = r.app.menu_cursor
            /\ typing_state = r.app.typing_state
            /\ learning_state = r.app.learning_state
            /\ file_explorer_state = r.app.file_explorer_state
            /\ statistics_state = r.app.statistics_state
            /\ language = r.app.config.language
            /\ difficulty = r.app.config.difficulty
            /\ old_app = before
    /\ keys_handled = 1
    /\ call = <<"handle_key_event", <<"Enter">>>>

\* a key event while the learning mode is on the screen
HandleLearningModeInput ==
    /\ current_screen = "LearningMode"
    /\ KeyEvent(TextKeys)

NextLearning ==
    \/ HandleLearningModeInput

SpecLearning == InitLearning /\ [][NextLearning]_vars

----------------------------------------------------------------------------
\* What the properties below speak of

\* new() returned a scheduler (it did not panic)
Constructed == ~(call[1] = "new" /\ panicked)

ValidIds == 0..(num_items - 1)
InvalidIds == {id \in Ids : id >= num_items}

\* the item sits somewhere in box b of the object
InBox(obj, item_id, b) == \E k \in 1..Len(obj.boxes[b]) : obj.boxes[b][k] = item_id

\* the places <<box, position>> at which the item is stored
Places(obj, item_id) ==
    {p \in UNION {{<<b, k>> : k \in 1..Len(obj.boxes[b])} : b \in DOMAIN obj.boxes} :
        obj.boxes[p[1]][p[2]] = item_id}

\* the sum of a Vec<usize>, from index b on
RECURSIVE SumFrom(_, _)
SumFrom(v, b) == IF ~InBounds(v, b) THEN 0 ELSE v[b] + SumFrom(v, b + 1)

\* the last call was method m on a valid item id
CalledOnValid(m, item_id) == call = <<m, item_id>> /\ item_id \in ValidIds

----------------------------------------------------------------------------
\* C1: in every state of a constructed scheduler each item id in
\* 0..num_items-1 is stored at exactly one place of exactly one box, and
\* the boxes hold nothing but these ids.
C1_EachItemInExactlyOneBox ==
    Constructed =>
        /\ \A i \in ValidIds : Cardinality(Places(self, i)) = 1
        /\ \A b \in DOMAIN boxes : \A k \in 1..Len(boxes[b]) :
               boxes[b][k] \in ValidIds

\* items spread over two boxes after a demotion
C1_Witness ==
    /\ \E i \in ValidIds : call = <<"answer_incorrect", i>>
    /\ num_items >= 3
    /\ Len(boxes[0]) >= 2
    /\ \E b \in DOMAIN boxes : b >= 1 /\ boxes[b] # <<>>

\* C2: the reverse index agrees with the boxes: for a valid id
\* get_item_box is Some(b) for the one box b in 0..num_boxes-1 that stores
\* it, and for an id >= num_items it is None.
C2_ReverseIndexAgrees ==
    Constructed =>
        \A id \in Ids :
            LET r == get_item_box(self, id).ret
            IN  IF id \in ValidIds
                THEN \E b \in 0..(num_boxes - 1) :
                        /\ r = Some(b)
                        /\ \A c \in DOMAIN boxes : InBox(self, id, c) <=> c = b
                ELSE r = None

\* get_item_box has reported a box above box 0 while another item is in box 0
C2_Witness ==
    \E i \in ValidIds :
        /\ call = <<"get_item_box", i>>
        /\ ret # None /\ ret[1] >= 1
        /\ boxes[0] # <<>>

\* C3: answer_correct on a valid item whose box was c does not panic, takes
\* the item out of box c and leaves it as the last element of box
\* min(c+1, num_boxes-1), which get_item_box then reports.
C3_AnswerCorrectPromotes ==
    \A i \in Ids :
        CalledOnValid("answer_correct", i) =>
            LET c == old.item_locations[i]
                t == Min(c + 1, num_boxes - 1)
            IN  /\ ~panicked
                /\ get_item_box(self, i).ret = Some(t)
                /\ boxes[t] # <<>> /\ Last(boxes[t]) = i
                /\ Places(self, i) = {<<t, Len(boxes[t])>>}
                /\ t # c => ~InBox(self, i, c)

\* a promotion into a higher box that already held another item
C3_Witness ==
    \E i \in ValidIds :
        /\ call = <<"answer_correct", i>>
        /\ old.item_locations[i] + 1 = item_locations[i]
        /\ Len(boxes[item_locations[i]]) >= 2

\* C4: answer_incorrect on a valid item, whatever its box was, does not
\* panic, takes the item out of that box and leaves it as the last element
\* of box 0, which get_item_box then reports.
C4_AnswerIncorrectDemotes ==
    \A i \in Ids :
        CalledOnValid("answer_incorrect", i) =>
            LET c == old.item_locations[i]
            IN  /\ ~panicked
                /\ get_item_box(self, i).ret = Some(0)
                /\ boxes[0] # <<>> /\ Last(boxes[0]) = i
                /\ Places(self, i) = {<<0, Len(boxes[0])>>}
                /\ c # 0 => ~InBox(self, i, c)

\* a demotion from the last box to the back of a box 0 holding another item
C4_Witness ==
    \E i \in ValidIds :
        /\ call = <<"answer_incorrect", i>>
        /\ num_boxes >= 3
        /\ old.item_locations[i] = num_boxes - 1
        /\ Len(boxes[0]) >= 2

\* C5: when get_next_item returns Some(i), every box below the box
\* get_item_box reports for i is empty and i is the first element of its box.
C5_NextItemIsFrontOfLowestBox ==
    Constructed =>
        LET r == get_next_item(self).ret
        IN  r # None =>
                LET i == r[1]
                    b == get_item_box(self, i).ret
                IN  /\ b # None
                    /\ \A lower \in 0..(b[1] - 1) : boxes[lower] = <<>>
                    /\ boxes[b[1]] # <<>> /\ Head(boxes[b[1]]) = i

\* get_next_item has skipped an empty box 0 and taken the front of a box of two
C5_Witness ==
    /\ call = <<"get_next_item">>
    /\ ret # None
    /\ item_locations[ret[1]] >= 1
    /\ Len(boxes[item_locations[ret[1]]]) >= 2

\* C6: answer_correct and answer_incorrect on an id >= num_items do not
\* panic and leave the boxes, their order and the reverse index as they were.
C6_InvalidIdIsNoOp ==
    \A id \in InvalidIds :
        (call = <<"answer_correct", id>> \/ call = <<"answer_incorrect", id>>) =>
            /\ ~panicked
            /\ self = old

\* answer_correct on the first id out of range, with items in two boxes
C6_Witness ==
    /\ call = <<"answer_correct", num_items>>
    /\ num_items >= 2
    /\ boxes[0] # <<>>
    /\ \E b \in DOMAIN boxes : b >= 1 /\ boxes[b] # <<>>

\* C7: no scheduler operation panics, for any num_boxes >= 0, any
\* num_items >= 0 and any item id.
C7_NeverPanics == ~panicked

\* C8: an item in the last box stays there under any further
\* answer_correct call, and a call on the item itself leaves it at the back
\* of the last box.
C8_MasteryIsStable ==
    \A i \in ValidIds, j \in Ids :
        (call = <<"answer_correct", j>> /\ old.item_locations[i] = num_boxes - 1) =>
            /\ ~panicked
            /\ get_item_box(self, i).ret = Some(num_boxes - 1)
            /\ j = i => Last(boxes[num_boxes - 1]) = i

\* a mastered item answered correctly again, moving behind another one
C8_Witness ==
    \E i \in ValidIds :
        /\ call = <<"answer_correct", i>>
        /\ num_boxes >= 2
        /\ old.item_locations[i] = num_boxes - 1
        /\ Len(boxes[num_boxes - 1]) >= 2
        /\ self # old

\* C9: get_box_counts has num_boxes entries, entry b being the length of
\* box b, and its sum, like remaining_items, is num_items.
C9_TotalConservation ==
    Constructed =>
        LET counts == get_box_counts(self).ret
        IN  /\ VecLen(counts) = num_boxes
            /\ \A b \in 0..(num_boxes - 1) : counts[b] = Len(boxes[b])
            /\ SumFrom(counts, 0) = num_items
            /\ remaining_items(self).ret = num_items

\* get_box_counts has reported items in the first and in the last of
\* three boxes
C9_Witness ==
    /\ call = <<"get_box_counts">>
    /\ num_boxes >= 3 /\ num_items >= 3
    /\ ret[0] >= 1 /\ ret[num_boxes - 1] >= 1
    /\ SumFrom(ret, 0) = num_items

\* C10: reset leaves the scheduler as new(num_boxes, num_items) makes it:
\* box 0 holds 0..num_items-1 in ascending order, every other box is empty
\* and every item's recorded box is 0.
C10_ResetRestoresInitial ==
    call = <<"reset">> =>
        /\ ~panicked
        /\ self = new(num_boxes, num_items).self
        /\ \A b \in DOMAIN boxes : b # 0 => boxes[b] = <<>>
        /\ num_items > 0 =>
               /\ Len(boxes[0]) = num_items
               /\ \A k \in 1..num_items : boxes[0][k] = k - 1
        /\ \A i \in ValidIds : get_item_box(self, i).ret = Some(0)

\* a reset of a scheduler whose items were spread over several boxes and
\* whose box 0 was out of ascending order
C10_Witness ==
    /\ call = <<"reset">>
    /\ num_items >= 3
    /\ \E i \in ValidIds : old.item_locations[i] >= 1
    /\ \E k \in 1..(Len(old.boxes[0]) - 1) : old.boxes[0][k] > old.boxes[0][k + 1]

----------------------------------------------------------------------------
\* the number of items whose recorded box is the last box
InLastBox(obj) ==
    Cardinality({i \in DOMAIN obj.item_locations :
                    get_item_box(obj, i).ret = Some(obj.num_boxes - 1)})

\* every item has had at least num_boxes - 1 correct answers in a row
AllAnsweredThrough == \A i \in ValidIds : streak[i] >= num_boxes - 1

\* C11: the scheduler new(num_boxes, num_items) returns has every item in
\* box 0 in ascending id order: get_box_counts is [num_items, 0, ..., 0],
\* get_item_box(i) is Some(0) for every i < num_items, and get_next_item is
\* Some(0) when num_items > 0.
C11_NewPlacesAllInBoxZero ==
    (call[1] = "new" /\ Constructed) =>
        LET counts == get_box_counts(self).ret
        IN  /\ VecLen(counts) = num_boxes
            /\ \A b \in DOMAIN counts : counts[b] = IF b = 0 THEN num_items ELSE 0
            /\ \A i \in ValidIds : get_item_box(self, i).ret = Some(0)
            /\ num_items > 0 =>
                   /\ get_next_item(self).ret = Some(0)
                   /\ \A k \in 1..num_items : boxes[0][k] = k - 1

\* a fresh scheduler of several boxes and several items
C11_Witness ==
    /\ call[1] = "new"
    /\ ~panicked
    /\ num_boxes >= 2
    /\ num_items >= 2
    /\ Len(boxes[0]) = num_items

\* C12: get_next_item is None exactly when every box is empty; with
\* num_items > 0 it is Some(id) with id < num_items, with num_items = 0 it
\* is None.
C12_NextItemNoneOnlyWhenEmpty ==
    Constructed =>
        LET r == get_next_item(self).ret
        IN  /\ r = None <=> \A b \in DOMAIN boxes : boxes[b] = <<>>
            /\ num_items > 0 => r # None /\ r[1] \in ValidIds
            /\ num_items = 0 => r = None

\* get_next_item has found an item although the first two boxes are empty
C12_Witness ==
    /\ call = <<"get_next_item">>
    /\ num_boxes >= 3
    /\ boxes[0] = <<>> /\ boxes[1] = <<>>
    /\ ret # None

\* C13: in every state all_mastered() returns true exactly when every item
\* is in the last box (get_item_box(i) is Some(num_boxes-1) for all i).
C13_AllMasteredIffAllInLastBox ==
    Constructed =>
        LET r == all_mastered(self)
        IN  /\ ~r.panicked
            /\ r.ret <=> \A i \in ValidIds :
                             get_item_box(self, i).ret = Some(num_boxes - 1)

\* C14 as stated: once every item has received num_boxes-1 answer_correct
\* calls since new, all_mastered() is true, summary().mastered_items is
\* num_items and mastery_percentage() is 100.
C14_FullMasteryAnyCount ==
    (Constructed /\ AllAnsweredThrough) =>
        LET am == all_mastered(self)
            sm == summary(self)
        IN  /\ ~am.panicked /\ am.ret
            /\ ~sm.panicked /\ sm.ret.mastered_items = num_items
            /\ FEq(mastery_percentage(sm.ret), F(100, 1))

\* C14, amended: with at least one item, once every item has received
\* num_boxes-1 answer_correct calls since new, all_mastered() is true,
\* summary().mastered_items is num_items and mastery_percentage() is 100.
C14_FullMastery ==
    (Constructed /\ num_items >= 1 /\ AllAnsweredThrough) =>
        LET am == all_mastered(self)
            sm == summary(self)
        IN  /\ ~am.panicked /\ am.ret
            /\ ~sm.panicked /\ sm.ret.mastered_items = num_items
            /\ FEq(mastery_percentage(sm.ret), F(100, 1))

\* mastery_percentage has returned 100 after every one of several items
\* went through three boxes
C14_Witness ==
    /\ call = <<"mastery_percentage">>
    /\ ~panicked
    /\ num_boxes >= 3 /\ num_items >= 2
    /\ AllAnsweredThrough
    /\ FEq(ret, F(100, 1))

\* C15: summary() reports total_items = num_items, mastered_items = the
\* number of items in the last box, in_progress_items = total_items -
\* mastered_items and box_counts = get_box_counts(), so that mastered and
\* in-progress items add up to the total.
C15_SummaryFields ==
    Constructed =>
        LET r == summary(self)
        IN  /\ ~r.panicked
            /\ r.ret.total_items = num_items
            /\ r.ret.mastered_items = InLastBox(self)
            /\ r.ret.in_progress_items = r.ret.total_items - r.ret.mastered_items
            /\ r.ret.box_counts = get_box_counts(self).ret
            /\ r.ret.mastered_items + r.ret.in_progress_items = r.ret.total_items

\* a summary with both mastered and unmastered items
C15_Witness ==
    /\ call = <<"summary">>
    /\ ~panicked
    /\ num_boxes >= 2
    /\ ret.mastered_items >= 1
    /\ ret.in_progress_items >= 1

\* C16: for every summary summary() produces, mastery_percentage() is
\* 100 * mastered_items / total_items, lies in [0, 100], and is 0 when
\* total_items is 0.
C16_MasteryPercentage ==
    Constructed =>
        LET r == summary(self)
        IN  /\ ~r.panicked
            /\ LET p == mastery_percentage(r.ret)
               IN  /\ ~p.nan
                   /\ r.ret.total_items = 0 => FEq(p, F(0, 1))
                   /\ r.ret.total_items > 0 =>
                          FEq(p, F(100 * r.ret.mastered_items, r.ret.total_items))
                   /\ FLe(F(0, 1), p) /\ FLe(p, F(100, 1))

\* a percentage strictly between 0 and 100
C16_Witness ==
    /\ call = <<"mastery_percentage">>
    /\ ~panicked
    /\ FLt(F(0, 1), ret) /\ FLt(ret, F(100, 1))

----------------------------------------------------------------------------
\* What the matcher's properties speak of

\* w without its leading and trailing white space, letters in lower case
Folded(w) ==
    LET kept == {k \in 1..Len(w) : w[k] # " "}
        lo   == CHOOSE k \in kept : \A j \in kept : k <= j
        hi   == CHOOSE k \in kept : \A j \in kept : j <= k
    IN  IF kept = {} THEN <<>>
        ELSE [k \in 1..(hi - lo + 1) |->
                IF w[lo + k - 1] \in {"a", "A"} THEN "a" ELSE w[lo + k - 1]]

\* y is x clamped into [lo, hi]
IsClamped(x, lo, hi, y) ==
    /\ FLe(lo, y) /\ FLe(y, hi)
    /\ FLt(x, lo) => FEq(y, lo)
    /\ FGt(x, hi) => FEq(y, hi)
    /\ (FLe(lo, x) /\ FLe(x, hi)) => FEq(y, x)

\* threshold + decision_margin and max(0, threshold - decision_margin)
UpperCut == FAdd(threshold, decision_margin)
LowerCut ==
    IF FLt(FSub(threshold, decision_margin), F(0, 1)) THEN F(0, 1)
    ELSE FSub(threshold, decision_margin)

\* C17: whatever the threshold and the margin, check_answer returns
\* AutoCorrect with score 1.0 when the two arguments are equal after
\* trimming and case folding, empty and white-space-only arguments included.
C17_ExactMatchPrecedence ==
    (call = <<"check_answer">> /\ Folded(user_input) = Folded(correct_answer)) =>
        /\ ret.tag = "AutoCorrect"
        /\ FEq(ret.score, F(1, 1))

\* two different arguments that are equal once normalized, accepted by a
\* matcher whose upper cut is above 1.0
C17_Witness ==
    /\ call = <<"check_answer">>
    /\ user_input # correct_answer
    /\ Folded(user_input) = Folded(correct_answer)
    /\ Folded(user_input) # <<>>
    /\ FGt(UpperCut, F(1, 1))
    /\ ret.tag = "AutoCorrect"

C19_NewClamps ==
    /\ ~given[1].nan => IsClamped(given[1], F(0, 1), F(1, 1), threshold)
    /\ ~given[2].nan => IsClamped(given[2], F(0, 1), F(1, 2), decision_margin)

\* a matcher built from a threshold above 1 and a margin above 0.5
C19_Witness ==
    /\ call = <<"FuzzyMatcher::new">>
    /\ FGt(given[1], F(1, 1)) /\ FEq(threshold, F(1, 1))
    /\ FGt(given[2], F(1, 2)) /\ FEq(decision_margin, F(1, 2))

\* C20: a NeedsUserDecision carries the two arguments as they were passed,
\* not their normalized forms.
C20_DecisionCarriesOriginals ==
    (call = <<"check_answer">> /\ ret.tag = "NeedsUserDecision") =>
        /\ ret.user_input = user_input
        /\ ret.correct_answer = correct_answer

\* a NeedsUserDecision for two arguments that normalization changes
C20_Witness ==
    /\ call = <<"check_answer">>
    /\ ret.tag = "NeedsUserDecision"
    /\ user_input # Folded(user_input)
    /\ correct_answer # Folded(correct_answer)
    /\ ret.user_input = user_input

\* C21: similarity(a, b) is the score jaro_winkler gives the two arguments
\* trimmed and case-folded (1.0 when they are then equal), and is_similar(a, b)
\* is true exactly when that score is >= the stored threshold.  Both are
\* determined by the arguments, the score and the threshold alone: the
\* matchers range over every decision margin, and the margin appears in
\* neither value.
C21_SimilarityQueries ==
    LET raw == IF Folded(user_input) = Folded(correct_answer) THEN F(1, 1) ELSE jw
    IN  /\ call = <<"similarity">> => ret = raw
        /\ call = <<"is_similar">> =>
               /\ ret <=> FGe(raw, threshold)
               /\ ret <=> FGe(similarity(matcher, user_input, correct_answer),
                              threshold)

\* is_similar has accepted a score equal to the threshold, for arguments
\* that normalization changes, on a matcher with a margin above 0
C21_Witness ==
    /\ call = <<"is_similar">>
    /\ ret = TRUE
    /\ Folded(user_input) # Folded(correct_answer)
    /\ user_input # Folded(user_input)
    /\ FEq(jw, threshold)
    /\ FLt(threshold, F(1, 1))
    /\ FGt(decision_margin, F(0, 1))

----------------------------------------------------------------------------
\* What the statistics' properties speak of

\* the counter f of the statistics went up by k in the last call
WentUp(f, k) == stats[f] = old_stats[f] + k

\* C22: record_correct increments total_reviewed and correct by exactly 1
\* and leaves incorrect and user_overrides unchanged; record_incorrect
\* increments total_reviewed and incorrect by exactly 1 and leaves correct
\* and user_overrides unchanged.
C22_RecordCorrectIncorrect ==
    /\ call = <<"record_correct">> =>
           /\ WentUp("total_reviewed", 1) /\ WentUp("correct", 1)
           /\ WentUp("incorrect", 0) /\ WentUp("user_overrides", 0)
    /\ call = <<"record_incorrect">> =>
           /\ WentUp("total_reviewed", 1) /\ WentUp("incorrect", 1)
           /\ WentUp("correct", 0) /\ WentUp("user_overrides", 0)

\* a record_incorrect on statistics whose four counters were all above 0
C22_Witness ==
    /\ call = <<"record_incorrect">>
    /\ old_stats.correct >= 1 /\ old_stats.incorrect >= 1
    /\ old_stats.user_overrides >= 1
    /\ incorrect = old_stats.incorrect + 1

\* C23: record_override(was_correct) increments total_reviewed and
\* user_overrides by exactly 1, and correct by 1 when was_correct is true,
\* otherwise incorrect by 1; the other bucket is unchanged.
C23_RecordOverride ==
    \A was_correct \in BOOLEAN :
        call = <<"record_override", was_correct>> =>
            /\ WentUp("total_reviewed", 1) /\ WentUp("user_overrides", 1)
            /\ WentUp("correct", IF was_correct THEN 1 ELSE 0)
            /\ WentUp("incorrect", IF was_correct THEN 0 ELSE 1)

\* an override to incorrect after an override to correct
C23_Witness ==
    /\ call = <<"record_override", FALSE>>
    /\ old_stats.correct >= 1 /\ old_stats.user_overrides >= 1
    /\ incorrect = old_stats.incorrect + 1
    /\ user_overrides >= 2

\* C24: no step of a session lowers total_reviewed, correct, incorrect or
\* user_overrides.
C24_CountersMonotone ==
    [][/\ total_reviewed' >= total_reviewed
       /\ correct' >= correct
       /\ incorrect' >= incorrect
       /\ user_overrides' >= user_overrides]_vars

\* a plain record after an override, every counter above 0
C24_Witness ==
    /\ call = <<"record_correct">>
    /\ old_stats.user_overrides >= 1
    /\ correct >= 2 /\ incorrect >= 1
    /\ total_reviewed > old_stats.total_reviewed

\* statistics with any counters, as a caller may fill the public fields
AnyStats ==
    [total_reviewed : 0..MaxReviews, correct : 0..MaxReviews,
     incorrect : {0}, user_overrides : {0}]

\* C25: accuracy() is 100 * correct / total_reviewed, and 0 when
\* total_reviewed is 0, for the statistics of the session and for
\* statistics with any counters; for the statistics of a session, built
\* through record_* calls only, it lies in [0, 100].
C25_Accuracy ==
    /\ \A s \in AnyStats \cup {stats} :
           /\ s.total_reviewed = 0 => FEq(accuracy(s), F(0, 1))
           /\ s.total_reviewed > 0 =>
                  FEq(accuracy(s), F(100 * s.correct, s.total_reviewed))
    /\ FLe(F(0, 1), accuracy(stats)) /\ FLe(accuracy(stats), F(100, 1))
    /\ call = <<"accuracy">> => ret = accuracy(stats)

\* the accuracy of two correct answers out of three, as in the test
\* test_session_stats: 66.66...
C25_Witness ==
    /\ call = <<"accuracy">>
    /\ correct = 2 /\ incorrect = 1 /\ total_reviewed = 3
    /\ FEq(ret, F(200, 3))

----------------------------------------------------------------------------
\* What the highscores' properties speak of

\* the list the file holds: the entries of its JSON array
Persisted == IF file.exists /\ file.content.kind = "array"
             THEN file.content.items ELSE <<>>

\* the file exists, can be opened and holds no content
FreshlyCreated(f) == f.exists /\ f.readable /\ f.content.kind = "empty"

\* C26: once scores have been added, the file holds a list of at most
\* max_scores entries, each a score that was added, in descending order of
\* WPM, and no score left out has a higher WPM than one that is kept: the
\* list holds the max_scores highest of the scores added.
C26_TopScoresKept ==
    added # <<>> =>
        /\ Len(Persisted) = Min(Len(added), max_scores)
        /\ \A k \in 1..Len(Persisted) :
               /\ Persisted[k].name \in 1..Len(added)
               /\ Persisted[k].wpm = json_f64(added[Persisted[k].name].wpm)
               /\ \A j \in 1..(k - 1) :
                      /\ Persisted[j].name # Persisted[k].name
                      /\ FGe(added[Persisted[j].name].wpm,
                             added[Persisted[k].name].wpm)
               /\ \A i \in 1..Len(added) :
                      (\A j \in 1..Len(Persisted) : Persisted[j].name # i) =>
                          FGe(added[Persisted[k].name].wpm, added[i].wpm)

\* C27: load() of a file that has just been created and holds no content
\* is Ok with an empty list, and after one add_score on such a file (with
\* room for a score) load() is Ok with exactly the score added.
C27_FreshFileLoadsEmpty ==
    /\ FreshlyCreated(file) => load(file) = ResultOk(<<>>)
    /\ (/\ call[1] = "add_score" /\ ret.ok
        /\ FreshlyCreated(old_file) /\ max_scores >= 1) =>
           load(file) = ResultOk(<<call[2]>>)

\* C28: add_score returns an error when loading the existing highscores
\* fails (the file exists but cannot be opened or parsed) and when saving
\* fails.
C28_AddScoreReportsFailures ==
    call[1] = "add_score" =>
        /\ ~load(old_file).ok => ~ret.ok
        /\ ~call[3] => ~ret.ok

----------------------------------------------------------------------------
----------------------------------------------------------------------------
\* a is in front of c in the sequence q
Ahead(q, a, c) ==
    \E j, k \in 1..Len(q) : j < k /\ q[j] = a /\ q[k] = c

\* C30: if a and c are in the same box and a was put there before c (by
\* an answer, or by new or reset with the lower id), then a is ahead of c
\* in the box and get_next_item() does not return c: it cannot return c
\* before a has been moved.
C30_FifoWithinBox ==
    Constructed =>
        \A b \in DOMAIN arrival : \A a, c \in ValidIds :
            Ahead(arrival[b], a, c) =>
                /\ InBox(self, a, b) /\ InBox(self, c, b)
                /\ Ahead(boxes[b], a, c)
                /\ get_next_item(self).ret # Some(c)

\* get_next_item has returned the front of a box above box 0 in which an
\* item of lower id, put there later, waits behind it
C30_Witness ==
    /\ call = <<"get_next_item">>
    /\ ret # None
    /\ item_locations[ret[1]] >= 1
    /\ \E c \in ValidIds :
           /\ c < ret[1]
           /\ Ahead(boxes[item_locations[ret[1]]], ret[1], c)
           /\ Ahead(arrival[item_locations[ret[1]]], ret[1], c)

----------------------------------------------------------------------------
\* every item is in the last box
EveryItemMastered ==
    \A i \in ValidIds : get_item_box(self, i).ret = Some(num_boxes - 1)

\* C31 as stated: with num_boxes >= 2, get_next_item() never returns an
\* item whose box is the last box.
C31_NeverReturnsMastered ==
    (Constructed /\ num_boxes >= 2) =>
        LET r == get_next_item(self).ret
        IN  r # None => get_item_box(self, r[1]).ret # Some(num_boxes - 1)

\* C31, amended: with num_boxes >= 2, get_next_item() returns an item
\* whose box is the last box only when every item is in the last box; as
\* long as an item is in a lower box, the item returned is in a lower box.
C31_ReturnsMasteredOnlyWhenAllMastered ==
    (Constructed /\ num_boxes >= 2) =>
        LET r == get_next_item(self).ret
        IN  r # None =>
                (get_item_box(self, r[1]).ret = Some(num_boxes - 1)
                    <=> EveryItemMastered)

\* get_next_item has passed over a mastered item of lower id and returned
\* an item of a lower box, box 0 being empty
C31_Witness ==
    /\ call = <<"get_next_item">>
    /\ num_boxes >= 3
    /\ boxes[0] = <<>>
    /\ ret # None
    /\ item_locations[ret[1]] < num_boxes - 1
    /\ \E i \in ValidIds : i < ret[1] /\ item_locations[i] = num_boxes - 1

\* C35: with num_boxes >= 1, after any sequence of operations
\* get_item_box(i) is Some(min(k, num_boxes - 1)), k being the number of
\* answer_correct(i) calls since the last answer_incorrect(i), reset or new.
C35_BoxIsCorrectStreak ==
    (Constructed /\ num_boxes >= 1) =>
        \A i \in ValidIds :
            get_item_box(self, i).ret = Some(Min(streak[i], num_boxes - 1))

\* an answer_incorrect on one item while a second item is part of the way
\* up and a third has had more correct answers than there are boxes to climb
C35_Witness ==
    /\ \E j \in ValidIds : call = <<"answer_incorrect", j>> /\ old.item_locations[j] >= 1
    /\ num_boxes >= 3
    /\ \E i \in ValidIds : streak[i] = 1 /\ item_locations[i] = 1
    /\ \E i \in ValidIds : streak[i] >= num_boxes /\ item_locations[i] = num_boxes - 1

\* the queue q without the item
Without(q, item_id) == SelectSeq(q, LAMBDA id : id # item_id)

\* C36: answer_correct(i) and answer_incorrect(i) leave every other item
\* in its box, and in every box the other items in the order they had.
C36_AnswerAffectsOnlyItsItem ==
    \A i \in Ids :
        (call = <<"answer_correct", i>> \/ call = <<"answer_incorrect", i>>) =>
            /\ ~panicked
            /\ \A j \in ValidIds \ {i} :
                   get_item_box(self, j).ret = get_item_box(old, j).ret
            /\ \A b \in DOMAIN boxes :
                   Without(boxes[b], i) = Without(old.boxes[b], i)

\* an answer that took the item from the front of a box in which two
\* others stay, out of ascending order
C36_Witness ==
    \E i \in ValidIds :
        /\ call = <<"answer_correct", i>>
        /\ LET c == old.item_locations[i]
           IN  /\ item_locations[i] # c
               /\ Len(old.boxes[c]) >= 3
               /\ Head(old.boxes[c]) = i
               /\ boxes[c][1] > boxes[c][2]

----------------------------------------------------------------------------
\* the answers given since the loop started on the fresh or reset scheduler
RECURSIVE AnswersFrom(_)
AnswersFrom(i) == IF ~InBounds(streak, i) THEN 0 ELSE streak[i] + AnswersFrom(i + 1)

\* the loop is at its condition and all_mastered() is true
ReportedMastered == AtLoopHead /\ AllMasteredIs(TRUE)

\* C34: for num_boxes >= 1 and num_items >= 1, the review loop (take
\* get_next_item(), answer it with answer_correct, until all_mastered())
\* started on a fresh or reset scheduler always comes to all_mastered() ==
\* true; all_mastered() is true exactly when num_items * (num_boxes - 1)
\* answers have been given, and no item taken is in the last box.
C34_ReviewLoopMasters ==
    /\ []((num_boxes >= 1 /\ num_items >= 1) =>
            /\ ~panicked
            /\ AnswersFrom(0) <= num_items * (num_boxes - 1)
            /\ all_mastered(self).ret <=>
                   AnswersFrom(0) = num_items * (num_boxes - 1)
            /\ (call = <<"get_next_item">> =>
                   /\ ret # None
                   /\ get_item_box(self, ret[1]).ret # Some(num_boxes - 1)))
    /\ []((num_boxes >= 1 /\ num_items >= 1) => <>ReportedMastered)

\* the loop has found every one of several items mastered after taking
\* each through three boxes
C34_Witness ==
    /\ ReportedMastered
    /\ num_boxes >= 3 /\ num_items >= 2
    /\ AnswersFrom(0) = num_items * (num_boxes - 1)
    /\ call # <<"new">>

\* C33: in every state reached from SessionStats::default() by
\* record_correct, record_incorrect and record_override, total_reviewed is
\* correct + incorrect and user_overrides is at most total_reviewed.
C33_StatsConsistent ==
    /\ total_reviewed = correct + incorrect
    /\ user_overrides <= total_reviewed

\* all three methods have been called, an override for either verdict
\* among them, and not every review was an override
C33_Witness ==
    /\ call[1] = "record_override"
    /\ correct >= 2 /\ incorrect >= 2
    /\ user_overrides >= 2
    /\ user_overrides < total_reviewed

C38_DegenerateCuts ==
    call = <<"check_answer">> =>
        /\ (FGt(UpperCut, F(1, 1)) /\ ret.tag = "AutoCorrect") =>
               Folded(user_input) = Folded(correct_answer)
        /\ FLe(threshold, decision_margin) => ret.tag # "AutoIncorrect"

\* the threshold 1.0 with the margin 0.10 of the learning mode: the best
\* score of two different answers is left to the user
C38_Witness ==
    /\ call = <<"check_answer">>
    /\ FEq(threshold, F(1, 1)) /\ FEq(decision_margin, F(10, 100))
    /\ Folded(user_input) # Folded(correct_answer)
    /\ FEq(jw, F(1, 1))
    /\ ret.tag = "NeedsUserDecision"

----------------------------------------------------------------------------
\* The UI

\* the last key event, and the screen it came to
LastKey == IF call[1] = "handle_key_event" THEN call[2] ELSE <<"none">>
KeyCameTo(screen) ==
    call[1] = "handle_key_event" /\ old_app.current_screen = screen

\* C32: in the typing test, a typed character raises error_count by 1
\* exactly when it differs from the target character at its character
\* position or lies beyond the end of the target, and leaves error_count
\* alone otherwise, whatever the target text.
C32_ErrorCountedPerCharacter ==
    (KeyCameTo("TypingTest") /\ LastKey[1] = "Char") =>
        LET before == old_app.typing_state
            pos    == Len(before.typed_text)
            wrong  == \/ ~(pos + 1 \in DOMAIN before.target_text)
                      \/ before.target_text[pos + 1] # LastKey[2]
        IN  typing_state.error_count =
                before.error_count + (IF wrong THEN 1 ELSE 0)

\* the cards of the set loaded
Cards == IF learning_state.set = None THEN <<>> ELSE learning_state.set[1].cards

\* what C39 says of all keys but Enter, and of Enter with the back shown
LearningModeKeys ==
    /\ (learning_state.match_result # None) <=> learning_state.show_back
    /\ learning_state.current_card_index <= Len(Cards)
    /\ (KeyCameTo("LearningMode") /\ old_app.learning_state.show_back) =>
           /\ LastKey[1] \in {"Char", "Backspace"} =>
                  learning_state.user_input = old_app.learning_state.user_input
           /\ LastKey = <<"Enter">> =>
                  /\ learning_state.current_card_index =
                         old_app.learning_state.current_card_index + 1
                  /\ learning_state.user_input = <<>>
                  /\ ~learning_state.show_back

\* Enter has come with the back hidden
AnswerEntered ==
    /\ KeyCameTo("LearningMode") /\ LastKey = <<"Enter">>
    /\ ~old_app.learning_state.show_back

\* C39 as stated: in learning mode match_result is Some exactly when
\* show_back is true, Char and Backspace leave user_input alone while
\* show_back is true, Enter with the back hidden shows it and Enter with
\* the back shown goes to the next card (index + 1, input cleared, back
\* hidden), and current_card_index never exceeds the number of cards.
C39_EnterAlwaysAlternates ==
    /\ LearningModeKeys
    /\ AnswerEntered => learning_state.show_back

\* C39, amended: as above, but Enter with the back hidden shows it only
\* while current_card_index is below the number of cards; at the end of
\* the set (and on a set without cards) it changes nothing.
C39_EnterAlternatesUntilTheEnd ==
    /\ LearningModeKeys
    /\ AnswerEntered =>
           IF old_app.learning_state.current_card_index < Len(Cards)
           THEN /\ learning_state.show_back
                /\ learning_state.current_card_index =
                       old_app.learning_state.current_card_index
                /\ learning_state.user_input = old_app.learning_state.user_input
           ELSE learning_state = old_app.learning_state

\* both cards of a set have been answered and Enter has come once more,
\* with an answer typed
C39_Witness ==
    /\ AnswerEntered
    /\ Len(Cards) >= 2
    /\ learning_state.current_card_index = Len(Cards)
    /\ learning_state.user_input # <<>>
    /\ ~learning_state.show_back

\* C40: menu_cursor is an index of menu_items; Up on the first entry goes
\* to the last and Down on the last to the first; and exit is set only by
\* q, Esc or Enter on Quit, on the Menu screen.
C40_MenuCursorAndExit ==
    LET last == Len(menu_items) - 1
    IN  /\ menu_cursor \in 0..last
        /\ (KeyCameTo("Menu") /\ LastKey = <<"Up">>) =>
               menu_cursor = IF old_app.menu_cursor = 0 THEN last
                             ELSE old_app.menu_cursor - 1
        /\ (KeyCameTo("Menu") /\ LastKey = <<"Down">>) =>
               menu_cursor = IF old_app.menu_cursor = last THEN 0
                             ELSE old_app.menu_cursor + 1
        /\ exit =>
               /\ KeyCameTo("Menu")
               /\ \/ LastKey \in {<<"Char", "q">>, <<"Esc">>}
                  \/ /\ LastKey = <<"Enter">>
                     /\ menu_items[old_app.menu_cursor + 1] = "Quit"

\* after a look at another screen, Up on the first entry and Enter on Quit
C40_Witness ==
    /\ exit
    /\ LastKey = <<"Enter">>
    /\ old_app.menu_cursor = Len(menu_items) - 1
    /\ keys_handled >= 4

====
